---- MODULE Spec2Model ----
(***************************************************************************)
(* State-machine model of the transaction engine of drivers/android/       *)
(* binder.c: processes, threads, nodes, references, death registrations,   *)
(* transactions, buffers and the work lists that connect them.             *)
(*                                                                         *)
(* Every ioctl and the deferred-release worker run under binder_main_lock  *)
(* (binder_ioctl, binder_deferred_func); binder_thread_read drops the lock *)
(* only while it waits.  An action of the model is therefore one command   *)
(* of the write stream, one ioctl, one iteration of the read loop (with    *)
(* the lock held by the reader) or one run of binder_deferred_release.     *)
(* BUG()/BUG_ON() stop the kernel: they set bug and nothing runs after.    *)
(***************************************************************************)
EXTENDS Integers, Sequences, FiniteSets, TLC

(* ------------------------------ bounds -------------------------------- *)
NProcs == 3
ThreadsPerProc == 2
MaxTxn == 3
MaxSelfTxn == 5
MaxNodes == 3
MaxRefs == 3
MaxDeaths == 2

Procs == 1..NProcs
Threads == 1..(NProcs * ThreadsPerProc)
TxnIds == 1..MaxSelfTxn
NodeIds == 1..MaxNodes
RefIds == 1..MaxRefs
DeathIds == 1..MaxDeaths

\* OS thread i of process p, and the process of an OS thread
Thr(p, i) == (p - 1) * ThreadsPerProc + i
TProc(th) == ((th - 1) \div ThreadsPerProc) + 1

(* --------------------------- work items ------------------------------- *)
\* A list entry is the binder_work embedded in an object: kind names the
\* embedding struct, id the object.
W(kind, id) == [kind |-> kind, id |-> id]
WTxn(t) == W("transaction", t)
WTc(t) == W("tcomplete", t)
WRetErr(th) == W("return_error", th)
WReplyErr(th) == W("reply_error", th)
WNode(n) == W("node", n)
WDeath(d) == W("death", d)

\* A work list: a thread's todo, a process's todo or delivered_death, a
\* node's async_todo; NoList is a NULL target_list.
L(l, id) == [l |-> l, id |-> id]
NoList == L("none", 0)
ThreadTodo(th) == L("thread", th)
ProcTodo(p) == L("proc", p)
AsyncTodo(n) == L("async", n)
DeliveredDeath(p) == L("delivered", p)

InSeq(w, s) == \E i \in 1..Len(s) : s[i] = w
Remove(s, w) == SelectSeq(s, LAMBDA x : x # w)

(* ----------------------------- objects -------------------------------- *)
NewProc ==
  [is_dead |-> FALSE, freed |-> FALSE, todo |-> <<>>, delivered_death |-> <<>>,
   max_threads |-> 0, requested_threads |-> 0, requested_threads_started |-> 0,
   ready_threads |-> 0, tmp_ref |-> 0, default_priority |-> 0,
   threads |-> {}, nodes |-> {}, refs_by_desc |-> {}, refs_by_node |-> {}]

\* binder_get_thread's initialisation of a new binder_thread.  return_error_id
\* and reply_error_id are history: the debug id of the transaction the
\* pending error is about.
NewThread ==
  [exists |-> TRUE, looper |-> {}, looper_need_return |-> TRUE,
   transaction_stack |-> 0, todo |-> <<>>,
   return_error |-> "BR_OK", reply_error |-> "BR_OK",
   return_error_id |-> 0, reply_error_id |-> 0,
   tmp_ref |-> 0, is_dead |-> FALSE]

NoThread == [NewThread EXCEPT !.exists = FALSE, !.looper_need_return = FALSE]

NoNode ==
  [st |-> "none", proc |-> 0, ptr |-> 0, cookie |-> 0, refs |-> {},
   internal_strong_refs |-> 0, local_weak_refs |-> 0, local_strong_refs |-> 0,
   tmp_refs |-> 0, has_strong_ref |-> FALSE, pending_strong_ref |-> FALSE,
   has_weak_ref |-> FALSE, pending_weak_ref |-> FALSE,
   min_priority |-> 0, accept_fds |-> FALSE,
   has_async_transaction |-> FALSE, async_todo |-> <<>>]

NoRef == [st |-> "none", proc |-> 0, desc |-> 0, node |-> 0,
          strong |-> 0, weak |-> 0, death |-> 0]

\* was_and_clear and requested_dead are history: the work has been
\* DEAD_BINDER_AND_CLEAR; the node had lost its owner when the notification
\* was requested
NoDeath ==
  [st |-> "none", cookie |-> 0, type |-> "none",
   was_and_clear |-> FALSE, requested_dead |-> FALSE]

NoTxn ==
  [st |-> "none", from |-> 0, from_parent |-> 0, to_proc |-> 0, to_thread |-> 0,
   to_parent |-> 0, need_reply |-> FALSE, buffer |-> 0, code |-> 0,
   one_way |-> FALSE, priority |-> 0, saved_priority |-> 0]

NoBuf ==
  [st |-> "none", proc |-> 0, transaction |-> 0, target_node |-> 0,
   async_transaction |-> FALSE, allow_user_free |-> FALSE, objs |-> <<>>,
   freed_by |-> ""]

VARIABLES
  procs,      \* binder_proc of each process
  threads,    \* binder_thread of each OS thread (exists = FALSE: none yet)
  nodes,      \* binder_node objects, by allocation order
  refs,       \* binder_ref objects
  deaths,     \* binder_ref_death objects
  txns,       \* binder_transaction objects, by allocation order
  bufs,       \* binder_buffer of each transaction
  tcs,        \* tcomplete work of each transaction: "none", "live", "freed"
  ctx,        \* context->binder_context_mgr_node (0: NULL)
  ctx_uid,    \* context->binder_context_mgr_uid (0: INVALID_UID)
  dead_nodes, \* binder_dead_nodes
  nice,       \* task_nice() of each OS thread
  rd,         \* each OS thread's position in binder_thread_read
  out,        \* history: the records each OS thread has read
  sent,       \* history: the calls of binder_transaction, in order
  bug,        \* the BUG()/BUG_ON() that stopped the kernel ("": none)
  locks       \* the spinlocks each OS thread holds, and the lock and unlock
              \* calls left in the function it is in

vars == <<procs, threads, nodes, refs, deaths, txns, bufs, tcs, ctx, ctx_uid,
          dead_nodes, nice, rd, out, sent, bug, locks>>

\* The kernel state as one value, for the sequential code of a handler
Cur ==
  [procs |-> procs, threads |-> threads, nodes |-> nodes, refs |-> refs,
   deaths |-> deaths, txns |-> txns, bufs |-> bufs, tcs |-> tcs, ctx |-> ctx,
   ctx_uid |-> ctx_uid, dead_nodes |-> dead_nodes, nice |-> nice, out |-> out, sent |-> sent,
   bug |-> bug, locks |-> locks]

Commit(S) ==
  /\ procs' = S.procs
  /\ threads' = S.threads
  /\ nodes' = S.nodes
  /\ refs' = S.refs
  /\ deaths' = S.deaths
  /\ txns' = S.txns
  /\ bufs' = S.bufs
  /\ tcs' = S.tcs
  /\ ctx' = S.ctx
  /\ ctx_uid' = S.ctx_uid
  /\ dead_nodes' = S.dead_nodes
  /\ nice' = S.nice
  /\ out' = S.out
  /\ sent' = S.sent
  /\ bug' = S.bug
  /\ locks' = S.locks

Bug(S, what) == IF S.bug = "" THEN [S EXCEPT !.bug = what] ELSE S

(* --------------------------- work lists ------------------------------- *)
ListOf(S, list) ==
  CASE list.l = "thread" -> S.threads[list.id].todo
    [] list.l = "proc" -> S.procs[list.id].todo
    [] list.l = "async" -> S.nodes[list.id].async_todo
    [] list.l = "delivered" -> S.procs[list.id].delivered_death
    [] OTHER -> <<>>

SetList(S, list, s) ==
  CASE list.l = "thread" -> [S EXCEPT !.threads[list.id].todo = s]
    [] list.l = "proc" -> [S EXCEPT !.procs[list.id].todo = s]
    [] list.l = "async" -> [S EXCEPT !.nodes[list.id].async_todo = s]
    [] list.l = "delivered" -> [S EXCEPT !.procs[list.id].delivered_death = s]
    [] OTHER -> S

\* !list_empty(&work->entry): the work is linked on some list
OnAList(S, w) ==
  \/ \E th \in Threads : InSeq(w, S.threads[th].todo)
  \/ \E p \in Procs : InSeq(w, S.procs[p].todo) \/ InSeq(w, S.procs[p].delivered_death)
  \/ \E n \in NodeIds : InSeq(w, S.nodes[n].async_todo)

binder_worklist_empty_ilocked(S, list) == ListOf(S, list) = <<>>

\* list_add in place of list_add_tail: the work goes to the head
binder_enqueue_work_at_head(S, w, list) ==
  IF list = NoList THEN Bug(S, "enqueue_work: target_list NULL")
  ELSE IF OnAList(S, w) THEN Bug(S, "enqueue_work: work already queued")
  ELSE SetList(S, list, <<w>> \o ListOf(S, list))

binder_enqueue_work_ilocked(S, w, list) ==
  IF list = NoList THEN Bug(S, "enqueue_work: target_list NULL")
  ELSE IF OnAList(S, w) THEN Bug(S, "enqueue_work: work already queued")
  ELSE SetList(S, list, Append(ListOf(S, list), w))

\* list_del_init: unlink from whatever list the work is on
binder_dequeue_work_ilocked(S, w) ==
  [S EXCEPT
     !.threads = [th \in Threads |-> [S.threads[th] EXCEPT !.todo = Remove(@, w)]],
     !.procs = [p \in Procs |-> [S.procs[p] EXCEPT !.todo = Remove(@, w),
                                                   !.delivered_death = Remove(@, w)]],
     !.nodes = [n \in NodeIds |-> [S.nodes[n] EXCEPT !.async_todo = Remove(@, w)]]]

(* ------------------------------ nodes --------------------------------- *)
Min(X) == CHOOSE x \in X : \A y \in X : x <= y
Ret(S, ret) == [S |-> S, ret |-> ret]

\* the first object of a pool that has not been allocated yet (0: pool used up)
FreeId(pool, ids) ==
  IF \E i \in ids : pool[i].st = "none"
  THEN Min({i \in ids : pool[i].st = "none"}) ELSE 0

\* the node of proc->nodes with this ptr (0: none); binder_get_node without
\* the temporary reference it takes
FindNode(S, p, ptr) ==
  IF \E n \in S.procs[p].nodes : S.nodes[n].ptr = ptr
  THEN CHOOSE n \in S.procs[p].nodes : S.nodes[n].ptr = ptr ELSE 0

binder_inc_node_tmpref(S, n) == [S EXCEPT !.nodes[n].tmp_refs = @ + 1]

binder_get_node(S, p, ptr) ==
  LET n == FindNode(S, p, ptr)
  IN IF n = 0 THEN Ret(S, 0) ELSE Ret(binder_inc_node_tmpref(S, n), n)

\* ret: the new node, 0 (NULL) if the process has a node with this ptr
\* already or no node object is left
binder_new_node(S, p, ptr, cookie, min_priority, accept_fds) ==
  LET n == FreeId(S.nodes, NodeIds)
  IN IF FindNode(S, p, ptr) # 0 \/ n = 0 THEN Ret(S, 0)
     ELSE Ret([S EXCEPT
                 !.nodes[n] = [NoNode EXCEPT !.st = "alive", !.proc = p, !.ptr = ptr,
                                             !.cookie = cookie, !.tmp_refs = 1,
                                             !.min_priority = min_priority,
                                             !.accept_fds = accept_fds],
                 !.procs[p].nodes = @ \cup {n}], n)

binder_free_node(S, n) ==
  IF S.nodes[n].st = "freed" THEN Bug(S, "double free of node")
  ELSE [S EXCEPT !.nodes[n].st = "freed"]

\* an increment that does not ask where the strong count comes from
binder_inc_node_nilocked_unguarded(S, n, strong, internal, target_list) ==
  LET N == S.nodes[n]
      Strong(S1) ==
        IF ~N.has_strong_ref /\ target_list # NoList
        THEN Ret(binder_enqueue_work_ilocked(
                   binder_dequeue_work_ilocked(S1, WNode(n)), WNode(n), target_list), "OK")
        ELSE Ret(S1, "OK")
      Weak(S1) ==
        IF ~N.has_weak_ref /\ ~OnAList(S1, WNode(n))
        THEN IF target_list = NoList THEN Ret(S1, "EINVAL")
             ELSE Ret(binder_enqueue_work_ilocked(S1, WNode(n), target_list), "OK")
        ELSE Ret(S1, "OK")
  IN IF strong THEN
       IF FALSE
       THEN Ret(S, "EINVAL")
       ELSE Strong(IF internal
                   THEN [S EXCEPT !.nodes[n].internal_strong_refs = @ + 1]
                   ELSE [S EXCEPT !.nodes[n].local_strong_refs = @ + 1])
     ELSE Weak(IF ~internal THEN [S EXCEPT !.nodes[n].local_weak_refs = @ + 1] ELSE S)

binder_inc_node_nilocked(S, n, strong, internal, target_list) ==
  LET N == S.nodes[n]
      Strong(S1) ==
        IF ~N.has_strong_ref /\ target_list # NoList
        THEN Ret(binder_enqueue_work_ilocked(
                   binder_dequeue_work_ilocked(S1, WNode(n)), WNode(n), target_list), "OK")
        ELSE Ret(S1, "OK")
      Weak(S1) ==
        IF ~N.has_weak_ref /\ ~OnAList(S1, WNode(n))
        THEN IF target_list = NoList THEN Ret(S1, "EINVAL")
             ELSE Ret(binder_enqueue_work_ilocked(S1, WNode(n), target_list), "OK")
        ELSE Ret(S1, "OK")
  IN IF strong THEN
       IF /\ internal
          /\ target_list = NoList
          /\ N.internal_strong_refs = 0
          /\ ~(N.proc # 0 /\ n = S.ctx /\ N.has_strong_ref)
       THEN Ret(S, "EINVAL")
       ELSE Strong(IF internal
                   THEN [S EXCEPT !.nodes[n].internal_strong_refs = @ + 1]
                   ELSE [S EXCEPT !.nodes[n].local_strong_refs = @ + 1])
     ELSE Weak(IF ~internal THEN [S EXCEPT !.nodes[n].local_weak_refs = @ + 1] ELSE S)

binder_inc_node(S, n, strong, internal, target_list) ==
  binder_inc_node_nilocked(S, n, strong, internal, target_list)

\* ret: the caller must free the node
binder_dec_node_nilocked(S, n, strong, internal) ==
  LET Dec(S1) ==
        LET N == S1.nodes[n]
        IN IF strong /\ (N.local_strong_refs # 0 \/ N.internal_strong_refs # 0)
           THEN Ret(S1, FALSE)
           ELSE IF ~strong /\ (N.local_weak_refs # 0 \/ N.tmp_refs # 0 \/ N.refs # {})
           THEN Ret(S1, FALSE)
           ELSE IF N.proc # 0 /\ (N.has_strong_ref \/ N.has_weak_ref)
           THEN IF ~OnAList(S1, WNode(n))
                THEN Ret(binder_enqueue_work_ilocked(S1, WNode(n), ProcTodo(N.proc)), FALSE)
                ELSE Ret(S1, FALSE)
           ELSE IF N.refs = {} /\ N.local_strong_refs = 0 /\ N.local_weak_refs = 0
                   /\ N.tmp_refs = 0
           THEN IF N.proc # 0
                THEN Ret([binder_dequeue_work_ilocked(S1, WNode(n))
                            EXCEPT !.procs[N.proc].nodes = @ \ {n}], TRUE)
                ELSE IF OnAList(S1, WNode(n))
                     THEN Ret(Bug(S1, "dec_node: dead node's work queued"), FALSE)
                     ELSE Ret([S1 EXCEPT !.dead_nodes = @ \ {n}], TRUE)
           ELSE Ret(S1, FALSE)
  IN Dec(IF strong
         THEN IF internal
              THEN [S EXCEPT !.nodes[n].internal_strong_refs = @ - 1]
              ELSE [S EXCEPT !.nodes[n].local_strong_refs = @ - 1]
         ELSE IF ~internal
              THEN [S EXCEPT !.nodes[n].local_weak_refs = @ - 1]
              ELSE S)

binder_dec_node(S, n, strong, internal) ==
  LET Free(r) == IF r.ret THEN binder_free_node(r.S, n) ELSE r.S
  IN Free(binder_dec_node_nilocked(S, n, strong, internal))

binder_dec_node_tmpref(S, n) ==
  LET Free(r) == IF r.ret THEN binder_free_node(r.S, n) ELSE r.S
      Dec(S1) == IF S1.nodes[n].tmp_refs < 0 THEN Bug(S1, "dec_node_tmpref: tmp_refs < 0")
                 ELSE Free(binder_dec_node_nilocked(S1, n, FALSE, TRUE))
  IN Dec([S EXCEPT !.nodes[n].tmp_refs = @ - 1])

binder_put_node(S, n) == binder_dec_node_tmpref(S, n)

(* ---------------------------- references ------------------------------ *)
binder_get_ref(S, p, desc, need_strong_ref) ==
  LET m == {r \in S.procs[p].refs_by_desc : S.refs[r].desc = desc}
  IN IF m = {} THEN 0
     ELSE LET r == CHOOSE x \in m : TRUE
          IN IF need_strong_ref /\ S.refs[r].strong = 0 THEN 0 ELSE r

\* a walk that takes the handle after the largest one in use
DescWalkLast(descs, d) ==
  IF descs = {} THEN d ELSE Min({k \in d..(d + MaxRefs) : \A x \in descs : x < k})

\* the handle chosen by the walk over refs_by_desc in increasing order
RECURSIVE DescWalk(_, _)
DescWalk(descs, d) ==
  IF descs = {} THEN d
  ELSE LET m == Min(descs)
       IN IF m > d THEN d ELSE DescWalk(descs \ {m}, m + 1)

NewDesc(S, p, n) ==
  DescWalk({S.refs[r].desc : r \in S.procs[p].refs_by_desc},
           IF n = S.ctx THEN 0 ELSE 1)

\* a lookup that does not find the reference the process has to the node
binder_get_ref_for_node_blind(S, p, n, new_ref) ==
  IF new_ref = 0 THEN Ret(S, 0)
  ELSE Ret([S EXCEPT
              !.refs[new_ref] = [NoRef EXCEPT !.st = "live", !.proc = p,
                                              !.node = n, !.desc = NewDesc(S, p, n)],
              !.procs[p].refs_by_node = @ \cup {new_ref},
              !.procs[p].refs_by_desc = @ \cup {new_ref},
              !.nodes[n].refs = @ \cup {new_ref}], new_ref)

\* new_ref: a freshly allocated ref object, or 0 (NULL)
binder_get_ref_for_node(S, p, n, new_ref) ==
  LET m == {r \in S.procs[p].refs_by_node : S.refs[r].node = n}
      Insert(d) ==
        LET S1 == [S EXCEPT
                     !.refs[new_ref] = [NoRef EXCEPT !.st = "live", !.proc = p,
                                                     !.node = n, !.desc = d],
                     !.procs[p].refs_by_node = @ \cup {new_ref},
                     !.procs[p].refs_by_desc = @ \cup {new_ref},
                     !.nodes[n].refs = @ \cup {new_ref}]
        IN IF \E r \in S.procs[p].refs_by_desc : S.refs[r].desc = d
           THEN Ret(Bug(S1, "get_ref_for_node: desc in use"), new_ref)
           ELSE Ret(S1, new_ref)
  IN IF m # {} THEN Ret(S, CHOOSE r \in m : TRUE)
     ELSE IF new_ref = 0 THEN Ret(S, 0)
     ELSE Insert(NewDesc(S, p, n))

\* a cleanup that forgets the strong count the reference holds on its node
binder_cleanup_ref_weak_only(S, r) ==
  LET R == S.refs[r]
      Death(S4) == IF R.death # 0 THEN binder_dequeue_work_ilocked(S4, WDeath(R.death)) ELSE S4
      Weak(d) == Death(IF d.ret THEN d.S ELSE [d.S EXCEPT !.refs[r].node = 0])
      Unlink(S2) == Weak(binder_dec_node_nilocked([S2 EXCEPT !.nodes[R.node].refs = @ \ {r}],
                                                  R.node, FALSE, TRUE))
      Strong(S1) == Unlink(S1)
  IN Strong([S EXCEPT !.procs[R.proc].refs_by_desc = @ \ {r},
                      !.procs[R.proc].refs_by_node = @ \ {r}])

binder_cleanup_ref(S, r) ==
  LET R == S.refs[r]
      Death(S4) == IF R.death # 0 THEN binder_dequeue_work_ilocked(S4, WDeath(R.death)) ELSE S4
      Weak(d) == Death(IF d.ret THEN d.S ELSE [d.S EXCEPT !.refs[r].node = 0])
      Unlink(S2) == Weak(binder_dec_node_nilocked([S2 EXCEPT !.nodes[R.node].refs = @ \ {r}],
                                                  R.node, FALSE, TRUE))
      Strong(S1) == Unlink(IF R.strong # 0
                           THEN binder_dec_node_nilocked(S1, R.node, TRUE, TRUE).S ELSE S1)
  IN Strong([S EXCEPT !.procs[R.proc].refs_by_desc = @ \ {r},
                      !.procs[R.proc].refs_by_node = @ \ {r}])

binder_free_ref(S, r) ==
  LET R == S.refs[r]
      Death(S1) == IF R.death # 0 THEN [S1 EXCEPT !.deaths[R.death].st = "freed"] ELSE S1
  IN [Death(IF R.node # 0 THEN binder_free_node(S, R.node) ELSE S)
        EXCEPT !.refs[r].st = "freed"]

binder_inc_ref(S, r, strong, target_list) ==
  LET R == S.refs[r]
      Strong(i) == IF i.ret # "OK" THEN i
                   ELSE Ret([i.S EXCEPT !.refs[r].strong = @ + 1], "OK")
      Weak(i) == IF i.ret # "OK" THEN i
                 ELSE Ret([i.S EXCEPT !.refs[r].weak = @ + 1], "OK")
  IN IF strong THEN
       IF R.strong = 0
       THEN Strong(binder_inc_node(S, R.node, TRUE, TRUE, target_list))
       ELSE Ret([S EXCEPT !.refs[r].strong = @ + 1], "OK")
     ELSE
       IF R.weak = 0
       THEN Weak(binder_inc_node(S, R.node, FALSE, TRUE, target_list))
       ELSE Ret([S EXCEPT !.refs[r].weak = @ + 1], "OK")

\* ret: the ref was cleaned up and is to be freed
binder_dec_ref(S, r, strong) ==
  LET R == S.refs[r]
      Cleanup(S1) == IF S1.refs[r].strong = 0 /\ S1.refs[r].weak = 0
                     THEN Ret(binder_cleanup_ref(S1, r), TRUE)
                     ELSE Ret(S1, FALSE)
      Strong(S0) == IF S0.refs[r].strong = 0
                    THEN binder_dec_node(S0, R.node, TRUE, TRUE) ELSE S0
  IN IF strong /\ R.strong = 0 THEN Ret(S, FALSE)
     ELSE IF ~strong /\ R.weak = 0 THEN Ret(S, FALSE)
     ELSE Cleanup(IF strong THEN Strong([S EXCEPT !.refs[r].strong = @ - 1])
                  ELSE [S EXCEPT !.refs[r].weak = @ - 1])

\* ret: "OK" or the errno; desc: rdata->desc
binder_update_ref_for_handle(S, p, desc, increment, strong) ==
  LET Inc(i, r) == [S |-> i.S, ret |-> i.ret, desc |-> S.refs[r].desc]
      Dec(d, r) == [S |-> IF d.ret THEN binder_free_ref(d.S, r) ELSE d.S,
                    ret |-> "OK", desc |-> S.refs[r].desc]
      Update(r) == IF r = 0 THEN [S |-> S, ret |-> "EINVAL", desc |-> desc]
                   ELSE IF increment THEN Inc(binder_inc_ref(S, r, strong, NoList), r)
                   ELSE Dec(binder_dec_ref(S, r, strong), r)
  IN Update(binder_get_ref(S, p, desc, strong))

binder_dec_ref_for_handle(S, p, desc, strong) ==
  binder_update_ref_for_handle(S, p, desc, FALSE, strong)

binder_inc_ref_for_node(S, p, n, strong, target_list) ==
  LET Data(i, g) == [S |-> i.S, ret |-> i.ret, desc |-> g.S.refs[g.ret].desc]
      Inc(g) == Data(binder_inc_ref(g.S, g.ret, strong, target_list), g)
      New(new_ref) == IF new_ref = 0 THEN [S |-> S, ret |-> "ENOMEM", desc |-> 0]
                      ELSE Inc(binder_get_ref_for_node(S, p, n, new_ref))
      Have(g) == IF g.ret # 0 THEN Inc(g) ELSE New(FreeId(S.refs, RefIds))
  IN Have(binder_get_ref_for_node(S, p, n, 0))

(* --------------------- threads and transactions ----------------------- *)
\* binder_get_thread: the binder_thread of the calling OS thread, created on
\* its first ioctl.  An OS thread that has exited does not come back.
binder_get_thread(S, th) ==
  IF S.threads[th].exists \/ S.threads[th].is_dead THEN S
  ELSE [S EXCEPT !.threads[th] = NewThread,
                 !.procs[TProc(th)].threads = @ \cup {th}]

\* binder_alloc_deferred_release: the allocator gives up every buffer of the
\* process; a buffer still bound to a transaction is unbound first
binder_alloc_deferred_release(S, p) ==
  [S EXCEPT !.bufs = [b \in TxnIds |->
     IF S.bufs[b].st = "alloc" /\ S.bufs[b].proc = p
     THEN [S.bufs[b] EXCEPT !.st = "freed", !.transaction = 0, !.freed_by = "release"]
     ELSE S.bufs[b]]]

binder_free_proc(S, p) ==
  LET S1 == IF S.procs[p].todo # <<>> \/ S.procs[p].delivered_death # <<>>
            THEN Bug(S, "free_proc: work list not empty") ELSE S
  IN [binder_alloc_deferred_release(S1, p) EXCEPT !.procs[p].freed = TRUE]

binder_proc_dec_tmpref(S, p) ==
  LET S1 == [S EXCEPT !.procs[p].tmp_ref = @ - 1]
  IN IF S1.procs[p].is_dead /\ S1.procs[p].threads = {} /\ S1.procs[p].tmp_ref = 0
     THEN binder_free_proc(S1, p) ELSE S1

binder_free_thread(S, th) ==
  LET S1 == IF S.threads[th].todo # <<>> THEN Bug(S, "free_thread: todo not empty") ELSE S
  IN binder_proc_dec_tmpref(
       [S1 EXCEPT !.threads[th] = [NoThread EXCEPT !.is_dead = TRUE]], TProc(th))

binder_thread_dec_tmpref(S, th) ==
  LET S1 == [S EXCEPT !.threads[th].tmp_ref = @ - 1]
  IN IF S1.threads[th].is_dead /\ S1.threads[th].tmp_ref = 0
     THEN binder_free_thread(S1, th) ELSE S1

\* RLIMIT_NICE of the process (rlim_cur): 40 lets its threads take any
\* nicety, 20 none below 0
MAX_NICE == 19
RlimitNice(p) == IF p = 3 THEN 20 ELSE 40
\* can_nice(current, nice): nice_to_rlimit(nice) <= RLIMIT_NICE
can_nice(th, n) == MAX_NICE - n + 1 <= RlimitNice(TProc(th))
\* set_user_nice: a nicety above MAX_NICE is ignored
set_user_nice(S, th, n) == IF n > MAX_NICE THEN S ELSE [S EXCEPT !.nice[th] = n]
\* a nicety set without asking whether the thread may take it
binder_set_nice_unchecked(S, th, n) == set_user_nice(S, th, n)
\* binder_set_nice: a nicety the thread may not take is replaced by the
\* least one RLIMIT_NICE allows (rlimit_to_nice)
binder_set_nice(S, th, n) ==
  IF can_nice(th, n) THEN set_user_nice(S, th, n)
  ELSE set_user_nice(S, th, MAX_NICE - RlimitNice(TProc(th)) + 1)

\* a pop that forgets to unlink t from the thread's stack
binder_pop_transaction_keep(S, target_thread, t) ==
  [S EXCEPT !.txns[t].from = 0]

binder_pop_transaction(S, target_thread, t) ==
  IF target_thread = 0 THEN Bug(S, "pop_transaction: no target thread")
  ELSE IF S.threads[target_thread].transaction_stack # t
  THEN Bug(S, "pop_transaction: not the top of the stack")
  ELSE IF S.txns[t].from # target_thread
  THEN Bug(S, "pop_transaction: top is not from this thread")
  ELSE [S EXCEPT !.threads[target_thread].transaction_stack = S.txns[t].from_parent,
                 !.txns[t].from = 0]

\* binder_get_txn_from: t->from, pinned by a temporary reference
binder_get_txn_from(S, t) ==
  LET from == S.txns[t].from
  IN IF from # 0 THEN Ret([S EXCEPT !.threads[from].tmp_ref = @ + 1], from)
     ELSE Ret(S, 0)

binder_free_transaction(S, t) ==
  LET b == S.txns[t].buffer
      S1 == IF b # 0 THEN [S EXCEPT !.bufs[b].transaction = 0] ELSE S
  IN IF S.txns[t].st = "freed" THEN Bug(S1, "double free of transaction")
     ELSE [S1 EXCEPT !.txns[t] = [NoTxn EXCEPT !.st = "freed"]]

RECURSIVE binder_send_failed_reply(_, _, _)
binder_send_failed_reply(S, t, error_code) ==
  LET Popped(S1, target_thread) ==
        binder_free_transaction(
          binder_thread_dec_tmpref(
            IF S1.threads[target_thread].reply_error = "BR_OK"
            THEN binder_enqueue_work_ilocked(
                   [S1 EXCEPT !.threads[target_thread].reply_error = error_code,
                              !.threads[target_thread].reply_error_id = t],
                   WReplyErr(target_thread), ThreadTodo(target_thread))
            ELSE S1,
            target_thread), t)
      Freed(S1, next) == IF next = 0 THEN S1
                         ELSE binder_send_failed_reply(S1, next, error_code)
      From(g) == IF g.ret # 0
                 THEN Popped(binder_pop_transaction(g.S, g.ret, t), g.ret)
                 ELSE Freed(binder_free_transaction(g.S, t), S.txns[t].from_parent)
  IN IF S.txns[t].one_way THEN Bug(S, "send_failed_reply: one-way transaction")
     ELSE From(binder_get_txn_from(S, t))

(* ----------------------- objects of a payload ------------------------- *)
\* A flat_binder_object: type is BINDER, WEAK_BINDER, HANDLE or WEAK_HANDLE;
\* val is fp->binder or fp->handle.
Obj(type, val, cookie) == [type |-> type, val |-> val, cookie |-> cookie]

binder_get_node_from_ref(S, p, desc, need_strong_ref) ==
  LET Node(r) == IF r = 0 THEN Ret(S, 0)
                 ELSE Ret(binder_inc_node_tmpref(S, S.refs[r].node), S.refs[r].node)
  IN Node(binder_get_ref(S, p, desc, need_strong_ref))

\* ret: "OK" or the errno; fp: the object as rewritten
binder_translate_binder(S, fp, target_proc, thread) ==
  LET proc == TProc(thread)
      strong == fp.type = "BINDER"
      Done(i, node) ==
        IF i.ret # "OK"
        THEN [S |-> binder_put_node(i.S, node), ret |-> i.ret, fp |-> fp]
        ELSE [S |-> binder_put_node(i.S, node), ret |-> "OK",
              fp |-> Obj(IF strong THEN "HANDLE" ELSE "WEAK_HANDLE", i.desc, 0)]
      Node(g) ==
        IF g.ret = 0 THEN [S |-> S, ret |-> "ENOMEM", fp |-> fp]
        ELSE IF fp.cookie # g.S.nodes[g.ret].cookie
        THEN [S |-> binder_put_node(g.S, g.ret), ret |-> "EINVAL", fp |-> fp]
        ELSE Done(binder_inc_ref_for_node(g.S, target_proc, g.ret, strong,
                                          ThreadTodo(thread)), g.ret)
      Get(g) == IF g.ret # 0 THEN Node(g)
                ELSE Node(binder_new_node(S, proc, fp.val, fp.cookie, 0, TRUE))
  IN Get(binder_get_node(S, proc, fp.val))

\* a target process that owns no node
OwnedByNobody(S, node, target_proc) == FALSE

\* node->proc == target_proc
OwnedByTarget(S, node, target_proc) == S.nodes[node].proc = target_proc

\* In the branch for a node of another process the result of
\* binder_inc_ref_for_node is kept in a local of its own: the function
\* returns 0 whether or not the increment worked.
binder_translate_handle(S, fp, target_proc, thread) ==
  LET proc == TProc(thread)
      strong == fp.type = "HANDLE"
      Local(i, node) ==
        [S |-> binder_put_node(i.S, node), ret |-> "OK",
         fp |-> Obj(IF strong THEN "BINDER" ELSE "WEAK_BINDER",
                    S.nodes[node].ptr, S.nodes[node].cookie)]
      Remote(i, node) ==
        IF i.ret # "OK"
        THEN [S |-> binder_put_node(i.S, node), ret |-> "OK", fp |-> fp]
        ELSE [S |-> binder_put_node(i.S, node), ret |-> "OK",
              fp |-> Obj(fp.type, i.desc, 0)]
      Node(g) ==
        IF g.ret = 0 THEN [S |-> S, ret |-> "EINVAL", fp |-> fp]
        ELSE IF OwnedByTarget(g.S, g.ret, target_proc)
        THEN Local(binder_inc_node_nilocked(g.S, g.ret, strong, FALSE, NoList), g.ret)
        ELSE Remote(binder_inc_ref_for_node(g.S, target_proc, g.ret, strong, NoList), g.ret)
  IN Node(binder_get_node_from_ref(S, proc, fp.val, strong))

\* sizeof(binder_uintptr_t), sizeof(u32)
PtrSize == 8
FdSize == 4
Align8(n) == ((n + 7) \div 8) * 8

\* A binder_buffer_object (BINDER_TYPE_PTR): length of its buffer, and with
\* BINDER_BUFFER_FLAG_HAS_PARENT the index in the offsets array of the
\* parent object and the offset in the parent's buffer of the pointer to
\* patch.
BufObj(length, has_parent, parent, parent_offset) ==
  [type |-> "PTR", length |-> length, has_parent |-> has_parent,
   parent |-> parent, parent_offset |-> parent_offset]
\* A binder_fd_array_object (BINDER_TYPE_FDA): num_fds descriptors at
\* parent_offset of the parent's buffer; fds: what binder_translate_fd
\* makes of them ("OK" or the errno of the first that fails).
FdaObj(num_fds, parent, parent_offset, fds) ==
  [type |-> "FDA", num_fds |-> num_fds, parent |-> parent,
   parent_offset |-> parent_offset, fds |-> fds]

\* binder_validate_ptr: the position in objs of the object at index of
\* the offsets array, 0 for NULL
binder_validate_ptr(objs, index, num_valid) ==
  IF index >= num_valid THEN 0
  ELSE IF objs[index + 1].type # "PTR" THEN 0
  ELSE index + 1

\* a walk that forgets the offset of the fixup it climbs over
RECURSIVE binder_validate_fixup_flat(_, _, _, _, _)
binder_validate_fixup_flat(objs, buffer, fixup_offset, last_obj, last_min_offset) ==
  IF last_obj = 0 THEN FALSE
  ELSE IF last_obj = buffer THEN fixup_offset >= last_min_offset
  ELSE IF ~objs[last_obj].has_parent THEN FALSE
  ELSE binder_validate_fixup_flat(objs, buffer, fixup_offset,
                                  objs[last_obj].parent + 1, 0)
\* binder_validate_fixup: buffer and last_obj are positions in objs
RECURSIVE binder_validate_fixup(_, _, _, _, _)
binder_validate_fixup(objs, buffer, fixup_offset, last_obj, last_min_offset) ==
  IF last_obj = 0 THEN FALSE
  ELSE IF last_obj = buffer THEN fixup_offset >= last_min_offset
  ELSE IF ~objs[last_obj].has_parent THEN FALSE
  ELSE binder_validate_fixup(objs, buffer, fixup_offset,
                             objs[last_obj].parent + 1,
                             objs[last_obj].parent_offset + PtrSize)

\* the errno, "OK" for 0
binder_translate_fd_array(fda, parent) ==
  IF FdSize * fda.num_fds > parent.length
     \/ fda.parent_offset > parent.length - FdSize * fda.num_fds
  THEN "EINVAL"
  ELSE IF fda.parent_offset % FdSize # 0 THEN "EINVAL"
  ELSE IF fda.num_fds > 0 THEN fda.fds
  ELSE "OK"

binder_fixup_parent(objs, bp, num_valid, last_fixup_obj, last_fixup_min_off) ==
  LET parent == binder_validate_ptr(objs, bp.parent, num_valid)
  IN IF ~bp.has_parent THEN "OK"
     ELSE IF parent = 0 THEN "EINVAL"
     ELSE IF ~binder_validate_fixup(objs, parent, bp.parent_offset,
                                    last_fixup_obj, last_fixup_min_off)
     THEN "EINVAL"
     ELSE IF objs[parent].length < PtrSize
             \/ bp.parent_offset > objs[parent].length - PtrSize
     THEN "EINVAL"
     ELSE "OK"

\* the scatter-gather state of the object loop: the last object fixed up
\* in, the least offset of the next fixup in it, the room left for the
\* buffers of BINDER_TYPE_PTR objects
Fixups(last_fixup_obj, last_fixup_min_off, buf_left) ==
  [last_fixup_obj |-> last_fixup_obj, last_fixup_min_off |-> last_fixup_min_off,
   buf_left |-> buf_left]

\* the object loop of binder_transaction from offset i on; at: the offset
\* the loop stopped at (offp), objs: the payload as rewritten so far
RECURSIVE TranslateObjects(_, _, _, _, _, _)
TranslateObjects(S, objs, i, target_proc, thread, fx) ==
  LET Stop(ret) == [S |-> S, ret |-> ret, objs |-> objs, at |-> i]
      Next(r) ==
        IF r.ret # "OK"
        THEN [S |-> r.S, ret |-> r.ret, objs |-> [objs EXCEPT ![i] = r.fp], at |-> i]
        ELSE TranslateObjects(r.S, [objs EXCEPT ![i] = r.fp], i + 1, target_proc,
                              thread, fx)
      Fda(fda, parent) ==
        IF parent = 0 THEN Stop("EINVAL")
        ELSE IF ~binder_validate_fixup(objs, parent, fda.parent_offset,
                                       fx.last_fixup_obj, fx.last_fixup_min_off)
        THEN Stop("EINVAL")
        ELSE IF binder_translate_fd_array(fda, objs[parent]) # "OK"
        THEN Stop(binder_translate_fd_array(fda, objs[parent]))
        ELSE TranslateObjects(S, objs, i + 1, target_proc, thread,
                              Fixups(parent, fda.parent_offset + FdSize * fda.num_fds,
                                     fx.buf_left))
      Ptr(bp) ==
        IF bp.length > fx.buf_left THEN Stop("EINVAL")
        ELSE IF binder_fixup_parent(objs, bp, i - 1, fx.last_fixup_obj,
                                    fx.last_fixup_min_off) # "OK"
        THEN Stop("EINVAL")
        ELSE TranslateObjects(S, objs, i + 1, target_proc, thread,
                              Fixups(i, 0, fx.buf_left - Align8(bp.length)))
  IN IF i > Len(objs) THEN [S |-> S, ret |-> "OK", objs |-> objs, at |-> i]
     ELSE IF objs[i].type \in {"BINDER", "WEAK_BINDER"}
     THEN Next(binder_translate_binder(S, objs[i], target_proc, thread))
     ELSE IF objs[i].type \in {"HANDLE", "WEAK_HANDLE"}
     THEN Next(binder_translate_handle(S, objs[i], target_proc, thread))
     ELSE IF objs[i].type = "FDA"
     THEN Fda(objs[i], binder_validate_ptr(objs, objs[i].parent, i - 1))
     ELSE IF objs[i].type = "PTR" THEN Ptr(objs[i])
     ELSE Stop("EINVAL")

\* the objects of the buffer below off_end are undone: a node loses the
\* count its object took, a handle its reference; the buffer of a
\* BINDER_TYPE_PTR object goes with the transaction buffer, and the
\* descriptors of a BINDER_TYPE_FDA object are closed
RECURSIVE ReleaseObjects(_, _, _, _, _)
ReleaseObjects(S, proc, objs, i, off_end) ==
  LET Node(g, strong) ==
        IF g.ret = 0 THEN S
        ELSE binder_put_node(binder_dec_node(g.S, g.ret, strong, FALSE), g.ret)
  IN IF i >= off_end THEN S
     ELSE ReleaseObjects(
            IF objs[i].type \in {"BINDER", "WEAK_BINDER"}
            THEN Node(binder_get_node(S, proc, objs[i].val), objs[i].type = "BINDER")
            ELSE IF objs[i].type \in {"HANDLE", "WEAK_HANDLE"}
            THEN binder_dec_ref_for_handle(S, proc, objs[i].val, objs[i].type = "HANDLE").S
            ELSE S,
            proc, objs, i + 1, off_end)

\* failed_at: the offset translation stopped at, 0 for NULL (release all)
binder_transaction_buffer_release(S, proc, b, failed_at) ==
  LET B == S.bufs[b]
      S1 == IF B.target_node # 0 THEN binder_dec_node(S, B.target_node, TRUE, FALSE) ELSE S
  IN ReleaseObjects(S1, proc, B.objs, 1,
                    IF failed_at # 0 THEN failed_at ELSE Len(B.objs) + 1)

\* binder_alloc_free_buf
binder_alloc_free_buf(S, b, by) ==
  IF S.bufs[b].st # "alloc" THEN Bug(S, "free of a buffer that is not allocated")
  ELSE [S EXCEPT !.bufs[b].st = "freed", !.bufs[b].freed_by = by]

(* -------------------------- binder_transaction ------------------------ *)
\* What a thread has read: cmd with the fields of its record that matter
\* (ptr/cookie of the target or the death cookie, the code, and the
\* debug id of the transaction).
Rec(cmd, ptr, cookie, code, id) ==
  [cmd |-> cmd, ptr |-> ptr, cookie |-> cookie, code |-> code, id |-> id]

\* The request of BC_TRANSACTION/BC_REPLY: the binder_transaction_data, and
\* which of the allocations or checks outside this file fails (fail):
\* "none", "security", "alloc_t", "alloc_tcomplete", "alloc_buf",
\* "alloc_buf_esrch" (the target's mapping is gone), "copy".
Tr(handle, code, one_way, objs, fail) ==
  [handle |-> handle, code |-> code, one_way |-> one_way, objs |-> objs, fail |-> fail]
\* The binder_transaction_data_sg of BC_TRANSACTION_SG/BC_REPLY_SG:
\* buffers_size is the room asked for the buffers of BINDER_TYPE_PTR
\* objects; BC_TRANSACTION and BC_REPLY pass 0.
TrSg(tr, buffers_size) ==
  [handle |-> tr.handle, code |-> tr.code, one_way |-> tr.one_way, objs |-> tr.objs,
   fail |-> tr.fail, buffers_size |-> buffers_size]
extra_buffers_size(tr) ==
  IF "buffers_size" \in DOMAIN tr THEN tr.buffers_size ELSE 0

\* Where binder_transaction stands before its exit.  Goto: one of the error
\* labels is taken (stage: how far the function got, see
\* binder_transaction_err); Resolved: the target is known; Queued: the
\* transaction is on its target list.
Goto(X, stage, return_error, target_thread, target_proc, target_node, in_reply_to, t, offp) ==
  [S |-> X, err |-> TRUE, stage |-> stage, return_error |-> return_error,
   target_thread |-> target_thread, target_proc |-> target_proc,
   target_node |-> target_node, in_reply_to |-> in_reply_to, t |-> t, offp |-> offp]

Resolved(X, target_thread, target_proc, target_node, in_reply_to) ==
  [S |-> X, err |-> FALSE, target_thread |-> target_thread, target_proc |-> target_proc,
   target_node |-> target_node, in_reply_to |-> in_reply_to]

Queued(X) == [S |-> X, err |-> FALSE]

\* the error labels entered with target_node still set after the buffer
\* was released
binder_transaction_err_twice(S, thread, stage, return_error, target_thread, target_proc, target_node, in_reply_to, t, offp) ==
  LET tn == target_node
      Report(S7) ==
        IF in_reply_to # 0
        THEN binder_send_failed_reply(
               binder_enqueue_work_ilocked(
                 [S7 EXCEPT !.threads[thread].return_error = "BR_TRANSACTION_COMPLETE",
                            !.threads[thread].return_error_id = t],
                 WRetErr(thread), ThreadTodo(thread)),
               in_reply_to, return_error)
        ELSE binder_enqueue_work_ilocked(
               [S7 EXCEPT !.threads[thread].return_error = return_error,
                          !.threads[thread].return_error_id = t],
               WRetErr(thread), ThreadTodo(thread))
      Check(S6) == Report(IF S6.threads[thread].return_error # "BR_OK"
                          THEN Bug(S6, "binder_transaction: return_error in use") ELSE S6)
      PutNode(S5) == Check(IF tn # 0 THEN binder_dec_node(S5, tn, TRUE, FALSE) ELSE S5)
      PutProc(S4) == PutNode(IF target_proc # 0
                             THEN binder_proc_dec_tmpref(S4, target_proc) ELSE S4)
      PutThread(S3) == PutProc(IF target_thread # 0
                               THEN binder_thread_dec_tmpref(S3, target_thread) ELSE S3)
      FreeT(S2) == PutThread(IF stage \in {"buffer", "tcomplete", "t"}
                             THEN [S2 EXCEPT !.txns[t] = [NoTxn EXCEPT !.st = "freed"]]
                             ELSE S2)
      FreeTcomplete(S1) == FreeT(IF stage \in {"buffer", "tcomplete"}
                                 THEN [S1 EXCEPT !.tcs[t] = "freed"] ELSE S1)
  IN FreeTcomplete(
       IF stage = "buffer"
       THEN binder_alloc_free_buf(
              [binder_transaction_buffer_release(S, target_proc, t, offp)
                 EXCEPT !.bufs[t].transaction = 0], t, "driver")
       ELSE S)

\* the error labels entered after the buffer was allocated with the
\* TRANSACTION_COMPLETE work on the sender's todo list, as the exit for a
\* dead target enters them
binder_transaction_err_queued(S, thread, stage, return_error, target_thread, target_proc, target_node, in_reply_to, t, offp) ==
  binder_transaction_err_twice(
    IF stage = "buffer" THEN binder_enqueue_work_ilocked(S, WTc(t), ThreadTodo(thread)) ELSE S,
    thread, stage, return_error, target_thread, target_proc,
    IF stage = "buffer" THEN 0 ELSE target_node, in_reply_to, t, offp)

\* The error labels of binder_transaction.  stage: how far the function
\* got ("buffer": the buffer is allocated; "tcomplete": t and tcomplete are;
\* "t": t is; "early": nothing is).  t: the debug id of the call.
binder_transaction_err(S, thread, stage, return_error, target_thread, target_proc, target_node, in_reply_to, t, offp) ==
  LET tn == IF stage = "buffer" THEN 0 ELSE target_node
      Report(S7) ==
        IF in_reply_to # 0
        THEN binder_send_failed_reply(
               binder_enqueue_work_ilocked(
                 [S7 EXCEPT !.threads[thread].return_error = "BR_TRANSACTION_COMPLETE",
                            !.threads[thread].return_error_id = t],
                 WRetErr(thread), ThreadTodo(thread)),
               in_reply_to, return_error)
        ELSE binder_enqueue_work_ilocked(
               [S7 EXCEPT !.threads[thread].return_error = return_error,
                          !.threads[thread].return_error_id = t],
               WRetErr(thread), ThreadTodo(thread))
      Check(S6) == Report(IF S6.threads[thread].return_error # "BR_OK"
                          THEN Bug(S6, "binder_transaction: return_error in use") ELSE S6)
      PutNode(S5) == Check(IF tn # 0 THEN binder_dec_node(S5, tn, TRUE, FALSE) ELSE S5)
      PutProc(S4) == PutNode(IF target_proc # 0
                             THEN binder_proc_dec_tmpref(S4, target_proc) ELSE S4)
      PutThread(S3) == PutProc(IF target_thread # 0
                               THEN binder_thread_dec_tmpref(S3, target_thread) ELSE S3)
      FreeT(S2) == PutThread(IF stage \in {"buffer", "tcomplete", "t"}
                             THEN [S2 EXCEPT !.txns[t] = [NoTxn EXCEPT !.st = "freed"]]
                             ELSE S2)
      FreeTcomplete(S1) == FreeT(IF stage \in {"buffer", "tcomplete"}
                                 THEN [S1 EXCEPT !.tcs[t] = "freed"] ELSE S1)
  IN FreeTcomplete(
       IF stage = "buffer"
       THEN binder_alloc_free_buf(
              [binder_transaction_buffer_release(S, target_proc, t, offp)
                 EXCEPT !.bufs[t].transaction = 0], t, "driver")
       ELSE S)

\* a walk that looks at the transaction on top of the stack only
StackWalkTop(S, tmp, target_proc) ==
  IF tmp # 0 /\ S.txns[tmp].from # 0 /\ TProc(S.txns[tmp].from) = target_proc
  THEN S.txns[tmp].from ELSE 0

\* the thread of target_proc found first walking from tmp along from_parent
RECURSIVE StackWalk(_, _, _)
StackWalk(S, tmp, target_proc) ==
  IF tmp = 0 THEN 0
  ELSE LET from == S.txns[tmp].from
       IN IF from # 0 /\ TProc(from) = target_proc THEN from
          ELSE StackWalk(S, S.txns[tmp].from_parent, target_proc)

\* the list of a one-way transaction that takes no notice of
\* has_async_transaction
AsyncListUngated(S, target_node, target_list) == target_list

\* the list of a one-way transaction: the node's async_todo while another
\* one-way transaction to the node is outstanding
AsyncList(S, target_node, target_list) ==
  IF S.nodes[target_node].has_async_transaction THEN AsyncTodo(target_node)
  ELSE target_list

\* binder_transaction from the allocation of t on: the target is resolved
binder_transaction_send(S, thread, tr, reply, target_thread, target_proc, target_node, in_reply_to) ==
  LET proc == TProc(thread)
      t == FreeId(S.txns, TxnIds)
      one_way == ~reply /\ tr.one_way
      target_list == IF target_thread # 0 THEN ThreadTodo(target_thread)
                     ELSE ProcTodo(target_proc)
      Err(X, stage, e, at) ==
        Goto(X, stage, e, target_thread, target_proc, target_node, in_reply_to, t, at)
      St == [S EXCEPT !.txns[t] =
               [NoTxn EXCEPT !.st = "live",
                             !.from = IF ~reply /\ ~tr.one_way THEN thread ELSE 0,
                             !.to_proc = target_proc, !.to_thread = target_thread,
                             !.code = tr.code, !.one_way = tr.one_way,
                             !.priority = S.nice[thread]],
             !.tcs[t] = "live"]
      Log(X) == [X EXCEPT !.sent = Append(@, [t |-> t, from |-> thread, reply |-> reply,
                                              one_way |-> one_way, node |-> target_node,
                                              code |-> tr.code, handle |-> tr.handle,
                                              in_reply_to |-> in_reply_to,
                                              to_proc |-> target_proc,
                                              error |-> "BR_OK",
                                              list |-> IF one_way /\ InSeq(WTxn(t), X.nodes[target_node].async_todo)
                                                       THEN AsyncTodo(target_node)
                                                       ELSE target_list])]
      Done(X) == Queued(binder_proc_dec_tmpref(
                          IF target_thread # 0 THEN binder_thread_dec_tmpref(X, target_thread)
                          ELSE X,
                          target_proc))
      Reply(Sc, at) ==
        IF Sc.threads[target_thread].is_dead
        THEN Err(Sc, "buffer", "BR_DEAD_REPLY", at)
        ELSE Done(Log(binder_enqueue_work_ilocked(
                    binder_free_transaction(
                      binder_pop_transaction(Sc, target_thread, in_reply_to), in_reply_to),
                    WTxn(t), target_list)))
      Sync(Sp, at) ==
        IF Sp.procs[target_proc].is_dead
           \/ (target_thread # 0 /\ Sp.threads[target_thread].is_dead)
        THEN Err(binder_pop_transaction(Sp, thread, t), "buffer", "BR_DEAD_REPLY", at)
        ELSE Done(Log(binder_enqueue_work_ilocked(Sp, WTxn(t), target_list)))
      Async(Sa, list, at) ==
        IF Sa.procs[target_proc].is_dead
           \/ (target_thread # 0 /\ Sa.threads[target_thread].is_dead)
        THEN Err(Sa, "buffer", "BR_DEAD_REPLY", at)
        ELSE Done(Log(binder_enqueue_work_ilocked(Sa, WTxn(t), list)))
      Dispatch(Sc, at) ==
        IF reply THEN Reply(Sc, at)
        ELSE IF ~tr.one_way
        THEN Sync([Sc EXCEPT !.txns[t].need_reply = TRUE,
                             !.txns[t].from_parent = Sc.threads[thread].transaction_stack,
                             !.threads[thread].transaction_stack = t], at)
        ELSE Async([Sc EXCEPT !.nodes[target_node].has_async_transaction = TRUE],
                   AsyncList(Sc, target_node, target_list), at)
      Translated(tl) ==
        IF tl.ret # "OK"
        THEN Err([tl.S EXCEPT !.bufs[t].objs = tl.objs], "buffer", "BR_FAILED_REPLY", tl.at)
        ELSE Dispatch(binder_enqueue_work_ilocked([tl.S EXCEPT !.bufs[t].objs = tl.objs],
                                                  WTc(t), ThreadTodo(thread)), tl.at)
      Allocated(Sb) ==
        IF tr.fail = "copy" THEN Err(Sb, "buffer", "BR_FAILED_REPLY", 1)
        ELSE IF extra_buffers_size(tr) % 8 # 0
        THEN Err(Sb, "buffer", "BR_FAILED_REPLY", 1)
        ELSE Translated(TranslateObjects(Sb, tr.objs, 1, target_proc, thread,
                                         Fixups(0, 0, extra_buffers_size(tr))))
  IN IF tr.fail = "alloc_t"
     THEN Err([S EXCEPT !.txns[t].st = "unalloc"], "early", "BR_FAILED_REPLY", 1)
     ELSE IF tr.fail = "alloc_tcomplete"
     THEN Err([S EXCEPT !.txns[t].st = "live"], "t", "BR_FAILED_REPLY", 1)
     ELSE IF tr.fail = "alloc_buf" THEN Err(St, "tcomplete", "BR_FAILED_REPLY", 1)
     ELSE IF tr.fail = "alloc_buf_esrch" THEN Err(St, "tcomplete", "BR_DEAD_REPLY", 1)
     ELSE Allocated([St EXCEPT !.txns[t].buffer = t,
                               !.bufs[t] = [NoBuf EXCEPT !.st = "alloc", !.proc = target_proc,
                                                         !.transaction = t,
                                                         !.target_node = target_node,
                                                         !.async_transaction = one_way,
                                                         !.objs = tr.objs]])

\* binder_transaction up to the allocation of t: the target of a reply is
\* the sender of the transaction on top of the stack, the target of a call
\* the node of the handle.  Every call takes the next debug id
\* (t_debug_id), which names the transaction it allocates; "unalloc": the
\* call left before allocating it.
\* a reply that takes every stack top for the call it answers
AnyCallStack(S, in_reply_to, thread) == FALSE
\* "got reply transaction with bad transaction stack": the top of the
\* replier's stack was not delivered to the replier
BadCallStack(S, in_reply_to, thread) == S.txns[in_reply_to].to_thread # thread
\* a call that takes every stack top for a transaction delivered to the
\* caller
AnyTopOfStack(S, top, thread) == FALSE
\* "got new transaction with bad transaction stack": the top of the
\* caller's stack was not delivered to the caller
BadTopOfStack(S, top, thread) == top # 0 /\ S.txns[top].to_thread # thread
binder_transaction_target(S, thread, tr, reply) ==
  LET proc == TProc(thread)
      T == S.threads[thread]
      Err(X, e, tt, tp, tn, irt) ==
        Goto([X EXCEPT !.txns[FreeId(S.txns, TxnIds)].st = "unalloc"],
             "early", e, tt, tp, tn, irt, FreeId(S.txns, TxnIds), 1)
      From(g, in_reply_to) ==
        IF g.ret = 0 THEN Err(g.S, "BR_DEAD_REPLY", 0, 0, 0, in_reply_to)
        ELSE IF g.S.threads[g.ret].transaction_stack # in_reply_to
        THEN Err(g.S, "BR_FAILED_REPLY", 0, 0, 0, 0)
        ELSE Resolved([g.S EXCEPT !.procs[TProc(g.ret)].tmp_ref = @ + 1],
                      g.ret, TProc(g.ret), 0, in_reply_to)
      ReplyTo(in_reply_to) ==
        IF BadCallStack(S, in_reply_to, thread)
        THEN Err(binder_set_nice(S, thread, S.txns[in_reply_to].saved_priority),
                 "BR_FAILED_REPLY", 0, 0, 0, 0)
        ELSE From(binder_get_txn_from(
                    [binder_set_nice(S, thread, S.txns[in_reply_to].saved_priority)
                       EXCEPT !.threads[thread].transaction_stack =
                                 S.txns[in_reply_to].to_parent],
                    in_reply_to),
                  in_reply_to)
      Node(S1, target_node) ==
        LET target_proc == S1.nodes[target_node].proc
            S2 == [S1 EXCEPT !.procs[target_proc].tmp_ref = @ + 1]
            top == T.transaction_stack
            target_thread == IF ~tr.one_way /\ top # 0
                             THEN StackWalk(S2, top, target_proc) ELSE 0
        IN IF target_proc = 0 THEN Err(S1, "BR_DEAD_REPLY", 0, 0, target_node, 0)
           ELSE IF tr.fail = "security"
           THEN Err(S2, "BR_FAILED_REPLY", 0, target_proc, target_node, 0)
           ELSE IF ~tr.one_way /\ BadTopOfStack(S2, top, thread)
           THEN Err(S2, "BR_FAILED_REPLY", 0, target_proc, target_node, 0)
           ELSE Resolved(IF target_thread # 0
                         THEN [S2 EXCEPT !.threads[target_thread].tmp_ref = @ + 1]
                         ELSE S2,
                         target_thread, target_proc, target_node, 0)
      Target(target_node) ==
        IF target_node = 0
        THEN Err(S, IF tr.handle # 0 THEN "BR_FAILED_REPLY" ELSE "BR_DEAD_REPLY", 0, 0, 0, 0)
        ELSE Node(binder_inc_node(S, target_node, TRUE, FALSE, NoList).S, target_node)
      Ref(ref) == Target(IF ref # 0 THEN S.refs[ref].node ELSE 0)
  IN IF reply
     THEN IF T.transaction_stack = 0 THEN Err(S, "BR_FAILED_REPLY", 0, 0, 0, 0)
          ELSE ReplyTo(T.transaction_stack)
     ELSE IF tr.handle # 0 THEN Ref(binder_get_ref(S, proc, tr.handle, TRUE))
     ELSE Target(S.ctx)

\* binder_transaction: resolve the target, allocate and queue the
\* transaction, or leave through the error labels
binder_transaction(S, thread, tr, reply) ==
  LET Log(X, r) ==
        [X EXCEPT !.sent = Append(@, [t |-> r.t, from |-> thread, reply |-> reply,
                                      one_way |-> ~reply /\ tr.one_way,
                                      node |-> r.target_node, code |-> tr.code,
                                      handle |-> tr.handle, in_reply_to |-> r.in_reply_to,
                                      to_proc |-> r.target_proc, error |-> r.return_error,
                                      list |-> NoList])]
      Exit(r) ==
        IF r.err
        THEN Log(binder_transaction_err(r.S, thread, r.stage, r.return_error,
                                        r.target_thread, r.target_proc, r.target_node,
                                        r.in_reply_to, r.t, r.offp), r)
        ELSE r.S
      Send(r) ==
        IF r.err THEN r
        ELSE binder_transaction_send(r.S, thread, tr, reply, r.target_thread,
                                     r.target_proc, r.target_node, r.in_reply_to)
  IN Exit(Send(binder_transaction_target(S, thread, tr, reply)))

(* ------------------- commands of binder_thread_write ------------------ *)
IsLooper(S, thread) ==
  S.threads[thread].looper \cap {"REGISTERED", "ENTERED"} # {}

\* BC_INCREFS, BC_ACQUIRE, BC_RELEASE, BC_DECREFS
BC_refs(S, thread, target, increment, strong) ==
  LET proc == TProc(thread)
      Update(first) ==
        IF first.ret = "OK" THEN first.S
        ELSE binder_update_ref_for_handle(first.S, proc, target, increment, strong).S
  IN Update(IF increment /\ target = 0 /\ S.ctx # 0
            THEN binder_inc_ref_for_node(S, proc, S.ctx, strong, NoList)
            ELSE [S |-> S, ret |-> "EINVAL", desc |-> 0])

\* an acknowledgement that is taken whether or not one is pending
BC_refs_done_unchecked(S, thread, node_ptr, cookie, acquire) ==
  LET Done(g) ==
        IF g.ret = 0 THEN S
        ELSE binder_put_node(
               binder_dec_node_nilocked(
                 IF acquire THEN [g.S EXCEPT !.nodes[g.ret].pending_strong_ref = FALSE]
                 ELSE [g.S EXCEPT !.nodes[g.ret].pending_weak_ref = FALSE],
                 g.ret, acquire, FALSE).S,
               g.ret)
  IN Done(binder_get_node(S, TProc(thread), node_ptr))

\* BC_INCREFS_DONE, BC_ACQUIRE_DONE
BC_refs_done(S, thread, node_ptr, cookie, acquire) ==
  LET Done(g) ==
        LET node == g.ret
        IN IF node = 0 THEN S
           ELSE IF cookie # S.nodes[node].cookie THEN binder_put_node(g.S, node)
           ELSE IF acquire /\ ~S.nodes[node].pending_strong_ref THEN binder_put_node(g.S, node)
           ELSE IF ~acquire /\ ~S.nodes[node].pending_weak_ref THEN binder_put_node(g.S, node)
           ELSE binder_put_node(
                  binder_dec_node_nilocked(
                    IF acquire THEN [g.S EXCEPT !.nodes[node].pending_strong_ref = FALSE]
                    ELSE [g.S EXCEPT !.nodes[node].pending_weak_ref = FALSE],
                    node, acquire, FALSE).S,
                  node)
  IN Done(binder_get_node(S, TProc(thread), node_ptr))

\* binder_alloc_prepare_to_free: the buffer of the process at this user
\* address (buffers are named by the transaction they were allocated for)
binder_alloc_prepare_to_free(S, proc, data_ptr) ==
  IF data_ptr \in TxnIds /\ S.bufs[data_ptr].st = "alloc" /\ S.bufs[data_ptr].proc = proc
  THEN data_ptr ELSE 0

\* a free that moves the next one-way transaction to the thread and takes
\* the node for idle
BC_FREE_BUFFER_async_idle(S, thread, buf_node) ==
  IF S.nodes[buf_node].async_todo = <<>>
  THEN [S EXCEPT !.nodes[buf_node].has_async_transaction = FALSE]
  ELSE binder_enqueue_work_ilocked(
         [S EXCEPT !.nodes[buf_node].async_todo = Tail(@),
                   !.nodes[buf_node].has_async_transaction = FALSE],
         Head(S.nodes[buf_node].async_todo), ThreadTodo(thread))

\* BC_FREE_BUFFER of a one-way transaction's buffer: the next one-way
\* transaction of the node moves to the thread, or the node has none left
BC_FREE_BUFFER_async(S, thread, buf_node) ==
  IF ~S.nodes[buf_node].has_async_transaction
  THEN Bug(S, "FREE_BUFFER: has_async_transaction not set")
  ELSE IF S.nodes[buf_node].proc # TProc(thread)
  THEN Bug(S, "FREE_BUFFER: node of another process")
  ELSE IF S.nodes[buf_node].async_todo = <<>>
  THEN [S EXCEPT !.nodes[buf_node].has_async_transaction = FALSE]
  ELSE binder_enqueue_work_ilocked(
         [S EXCEPT !.nodes[buf_node].async_todo = Tail(@)],
         Head(S.nodes[buf_node].async_todo), ThreadTodo(thread))

\* a free that takes every buffer of the process for returned
ReturnedOrNot(S, b) == FALSE
\* "matched unreturned buffer": !buffer->allow_user_free
Unreturned(S, b) == ~S.bufs[b].allow_user_free
BC_FREE_BUFFER(S, thread, data_ptr) ==
  LET proc == TProc(thread)
      b == binder_alloc_prepare_to_free(S, proc, data_ptr)
      B == S.bufs[b]
      Unbound == IF B.transaction # 0
                 THEN [S EXCEPT !.txns[B.transaction].buffer = 0,
                                !.bufs[b].transaction = 0]
                 ELSE S
  IN IF b = 0 THEN S
     ELSE IF Unreturned(S, b) THEN S
     ELSE binder_alloc_free_buf(
            binder_transaction_buffer_release(
              IF B.async_transaction /\ B.target_node # 0
              THEN BC_FREE_BUFFER_async(Unbound, thread, B.target_node)
              ELSE Unbound,
              proc, b, 0),
            b, "user")

\* a registration that is counted whether or not one was asked for
BC_REGISTER_LOOPER_unasked(S, thread) ==
  LET proc == TProc(thread)
      S1 == IF "ENTERED" \in S.threads[thread].looper
            THEN [S EXCEPT !.threads[thread].looper = @ \cup {"INVALID"}]
            ELSE [S EXCEPT !.procs[proc].requested_threads = @ - 1,
                           !.procs[proc].requested_threads_started = @ + 1]
  IN [S1 EXCEPT !.threads[thread].looper = @ \cup {"REGISTERED"}]

BC_REGISTER_LOOPER(S, thread) ==
  LET proc == TProc(thread)
      S1 == IF "ENTERED" \in S.threads[thread].looper
            THEN [S EXCEPT !.threads[thread].looper = @ \cup {"INVALID"}]
            ELSE IF S.procs[proc].requested_threads = 0
            THEN [S EXCEPT !.threads[thread].looper = @ \cup {"INVALID"}]
            ELSE [S EXCEPT !.procs[proc].requested_threads = @ - 1,
                           !.procs[proc].requested_threads_started = @ + 1]
  IN [S1 EXCEPT !.threads[thread].looper = @ \cup {"REGISTERED"}]

BC_ENTER_LOOPER(S, thread) ==
  LET S1 == IF "REGISTERED" \in S.threads[thread].looper
            THEN [S EXCEPT !.threads[thread].looper = @ \cup {"INVALID"}]
            ELSE S
  IN [S1 EXCEPT !.threads[thread].looper = @ \cup {"ENTERED"}]

BC_EXIT_LOOPER(S, thread) ==
  [S EXCEPT !.threads[thread].looper = @ \cup {"EXITED"}]

\* where a thread puts death work for itself or its process
DeathList(S, thread) ==
  IF IsLooper(S, thread) THEN ThreadTodo(thread) ELSE ProcTodo(TProc(thread))

\* alloc_fails: kzalloc of the binder_ref_death fails
BC_REQUEST_DEATH_NOTIFICATION(S, thread, target, cookie, alloc_fails) ==
  LET proc == TProc(thread)
      ref == binder_get_ref(S, proc, target, FALSE)
      d == FreeId(S.deaths, DeathIds)
  IN IF ref = 0 THEN S
     ELSE IF S.refs[ref].death # 0 THEN S
     ELSE IF alloc_fails \/ d = 0
     THEN binder_enqueue_work_ilocked(
            [S EXCEPT !.threads[thread].return_error = "BR_ERROR",
                      !.threads[thread].return_error_id = 0],
            WRetErr(thread), ThreadTodo(thread))
     ELSE LET S1 == [S EXCEPT !.deaths[d] = [NoDeath EXCEPT !.st = "live",
                                                            !.cookie = cookie],
                              !.refs[ref].death = d]
          IN IF S1.nodes[S1.refs[ref].node].proc = 0
             THEN binder_enqueue_work_ilocked(
                    [S1 EXCEPT !.deaths[d].type = "DEAD_BINDER",
                               !.deaths[d].requested_dead = TRUE],
                    WDeath(d), DeathList(S1, thread))
             ELSE S1

\* a clear that takes the queued work for a clear work
ClearQueuedAtOnce(S, d) == [S EXCEPT !.deaths[d].type = "CLEAR_DEATH_NOTIFICATION"]

\* BC_CLEAR_DEATH_NOTIFICATION of a registration whose work is on a list
ClearQueued(S, d) ==
  IF S.deaths[d].type # "DEAD_BINDER"
  THEN Bug(S, "CLEAR_DEATH_NOTIFICATION: queued work is not DEAD_BINDER")
  ELSE [S EXCEPT !.deaths[d].type = "DEAD_BINDER_AND_CLEAR",
                 !.deaths[d].was_and_clear = TRUE]

BC_CLEAR_DEATH_NOTIFICATION(S, thread, target, cookie) ==
  LET proc == TProc(thread)
      ref == binder_get_ref(S, proc, target, FALSE)
      d == S.refs[ref].death
  IN IF ref = 0 THEN S
     ELSE IF d = 0 THEN S
     ELSE IF S.deaths[d].cookie # cookie THEN S
     ELSE LET S1 == [S EXCEPT !.refs[ref].death = 0]
          IN IF ~OnAList(S1, WDeath(d))
             THEN binder_enqueue_work_ilocked(
                    [S1 EXCEPT !.deaths[d].type = "CLEAR_DEATH_NOTIFICATION"],
                    WDeath(d), DeathList(S1, thread))
             ELSE ClearQueued(S1, d)

\* an acknowledgement that leaves the work on delivered_death
BC_DEAD_BINDER_DONE_linked(S, thread, cookie) ==
  LET proc == TProc(thread)
      dd == S.procs[proc].delivered_death
      hits == {i \in 1..Len(dd) : S.deaths[dd[i].id].cookie = cookie}
  IN IF hits = {} THEN S
     ELSE LET d == dd[Min(hits)].id
              S1 == S
          IN IF S1.deaths[d].type = "DEAD_BINDER_AND_CLEAR"
             THEN binder_enqueue_work_ilocked(
                    [S1 EXCEPT !.deaths[d].type = "CLEAR_DEATH_NOTIFICATION"],
                    WDeath(d), DeathList(S1, thread))
             ELSE S1

BC_DEAD_BINDER_DONE(S, thread, cookie) ==
  LET proc == TProc(thread)
      dd == S.procs[proc].delivered_death
      hits == {i \in 1..Len(dd) : S.deaths[dd[i].id].cookie = cookie}
  IN IF hits = {} THEN S
     ELSE LET d == dd[Min(hits)].id
              S1 == binder_dequeue_work_ilocked(S, WDeath(d))
          IN IF S1.deaths[d].type = "DEAD_BINDER_AND_CLEAR"
             THEN binder_enqueue_work_ilocked(
                    [S1 EXCEPT !.deaths[d].type = "CLEAR_DEATH_NOTIFICATION"],
                    WDeath(d), DeathList(S1, thread))
             ELSE S1

(* ------------------------------ release ------------------------------- *)
RECURSIVE binder_release_work(_, _)
binder_release_work(S, list) ==
  LET Work(S1, w) ==
        CASE w.kind = "transaction" /\ S1.txns[w.id].buffer = 0 ->
               Bug(S1, "release_work: transaction without buffer")
          [] w.kind = "transaction" /\ S1.txns[w.id].buffer # 0 ->
               IF S1.bufs[S1.txns[w.id].buffer].target_node # 0
                  /\ ~S1.txns[w.id].one_way
               THEN binder_send_failed_reply(S1, w.id, "BR_DEAD_REPLY")
               ELSE binder_free_transaction(S1, w.id)
          [] w.kind = "tcomplete" -> [S1 EXCEPT !.tcs[w.id] = "freed"]
          [] w.kind = "death"
             /\ S1.deaths[w.id].type \in {"DEAD_BINDER_AND_CLEAR",
                                          "CLEAR_DEATH_NOTIFICATION"} ->
               [S1 EXCEPT !.deaths[w.id].st = "freed"]
          [] OTHER -> S1
  IN IF ListOf(S, list) = <<>> THEN S
     ELSE binder_release_work(
            Work(SetList(S, list, Tail(ListOf(S, list))), Head(ListOf(S, list))), list)

\* the loop of binder_thread_release over the thread's transaction stack
RECURSIVE ReleaseStack(_, _, _)
ReleaseStack(S, thread, t) ==
  IF t = 0 THEN S
  ELSE IF S.txns[t].to_thread = thread
  THEN LET b == S.txns[t].buffer
           S1 == [S EXCEPT !.txns[t].to_proc = 0, !.txns[t].to_thread = 0,
                           !.txns[t].buffer = 0]
           S2 == IF b # 0 THEN [S1 EXCEPT !.bufs[b].transaction = 0] ELSE S1
       IN ReleaseStack(S2, thread, S.txns[t].to_parent)
  ELSE IF S.txns[t].from = thread
  THEN ReleaseStack([S EXCEPT !.txns[t].from = 0], thread, S.txns[t].from_parent)
  ELSE Bug(S, "thread_release: transaction of another thread on the stack")

binder_thread_release(S, thread) ==
  LET proc == TProc(thread)
      t == S.threads[thread].transaction_stack
      send_reply == IF t # 0 /\ S.txns[t].to_thread = thread THEN t ELSE 0
      Reply(S2) == IF send_reply # 0
                   THEN binder_send_failed_reply(S2, send_reply, "BR_DEAD_REPLY") ELSE S2
  IN binder_thread_dec_tmpref(
       binder_release_work(
         Reply(ReleaseStack([S EXCEPT !.procs[proc].tmp_ref = @ + 1,
                                      !.threads[thread].tmp_ref = @ + 1,
                                      !.procs[proc].threads = @ \ {thread},
                                      !.threads[thread].is_dead = TRUE],
                            thread, t)),
         ThreadTodo(thread)),
       thread)

\* a node release that tells nobody
NotifyNobody(S, rs) == S

\* the loop of binder_node_release over node->refs
RECURSIVE NotifyDeaths(_, _)
NotifyDeaths(S, rs) ==
  IF rs = {} THEN S
  ELSE LET r == Min(rs)
           d == S.refs[r].death
           S1 == IF d = 0 THEN S
                 ELSE IF ~OnAList(S, WDeath(d))
                 THEN binder_enqueue_work_ilocked(
                        [S EXCEPT !.deaths[d].type = "DEAD_BINDER"],
                        WDeath(d), ProcTodo(S.refs[r].proc))
                 ELSE Bug(S, "node_release: death work already queued")
       IN NotifyDeaths(S1, rs \ {r})

\* a node that moves to binder_dead_nodes and still names its owner
NodeDeadKeepsProc(S, node) ==
  [S EXCEPT !.nodes[node].local_strong_refs = 0,
            !.nodes[node].local_weak_refs = 0,
            !.dead_nodes = @ \cup {node}]

\* binder_node_release: the node loses its owner and moves to
\* binder_dead_nodes
NodeDead(S, node) ==
  [S EXCEPT !.nodes[node].proc = 0,
            !.nodes[node].local_strong_refs = 0,
            !.nodes[node].local_weak_refs = 0,
            !.dead_nodes = @ \cup {node}]

\* a release that frees the node whoever refers to it
binder_node_release_unlinked(S, node) ==
  LET Release(S1) ==
        LET N == S1.nodes[node]
        IN IF N.tmp_refs = 0 THEN Bug(S1, "node_release: no temporary reference")
           ELSE IF N.tmp_refs = 1 THEN binder_free_node(S1, node)
           ELSE binder_put_node(NotifyDeaths(NodeDead(S1, node), N.refs), node)
  IN Release(binder_dequeue_work_ilocked(
               binder_release_work(S, AsyncTodo(node)), WNode(node)))

binder_node_release(S, node) ==
  LET Release(S1) ==
        LET N == S1.nodes[node]
        IN IF N.tmp_refs = 0 THEN Bug(S1, "node_release: no temporary reference")
           ELSE IF N.refs = {} /\ N.tmp_refs = 1 THEN binder_free_node(S1, node)
           ELSE binder_put_node(NotifyDeaths(NodeDead(S1, node), N.refs), node)
  IN Release(binder_dequeue_work_ilocked(
               binder_release_work(S, AsyncTodo(node)), WNode(node)))

RECURSIVE ReleaseThreads(_, _)
ReleaseThreads(S, proc) ==
  IF S.procs[proc].threads = {} THEN S
  ELSE ReleaseThreads(binder_thread_release(S, Min(S.procs[proc].threads)), proc)

RECURSIVE ReleaseNodes(_, _)
ReleaseNodes(S, proc) ==
  IF S.procs[proc].nodes = {} THEN S
  ELSE LET node == Min(S.procs[proc].nodes)
           S1 == [binder_inc_node_tmpref(S, node) EXCEPT !.procs[proc].nodes = @ \ {node}]
       IN ReleaseNodes(binder_node_release(S1, node), proc)

RECURSIVE ReleaseRefs(_, _)
ReleaseRefs(S, proc) ==
  IF S.procs[proc].refs_by_desc = {} THEN S
  ELSE LET m == Min({S.refs[r].desc : r \in S.procs[proc].refs_by_desc})
           ref == CHOOSE r \in S.procs[proc].refs_by_desc : S.refs[r].desc = m
       IN ReleaseRefs(binder_free_ref(binder_cleanup_ref(S, ref), ref), proc)

binder_deferred_release(S, proc) ==
  LET S1 == IF S.ctx # 0 /\ S.nodes[S.ctx].proc = proc THEN [S EXCEPT !.ctx = 0] ELSE S
      S2 == [S1 EXCEPT !.procs[proc].tmp_ref = @ + 1, !.procs[proc].is_dead = TRUE]
      S3 == ReleaseRefs(ReleaseNodes(ReleaseThreads(S2, proc), proc), proc)
      S4 == binder_release_work(binder_release_work(S3, ProcTodo(proc)),
                                DeliveredDeath(proc))
  IN binder_proc_dec_tmpref(S4, proc)

(* -------------------------- binder_thread_read ------------------------ *)
Emit(S, thread, rec) == [S EXCEPT !.out[thread] = Append(@, rec)]

\* a read that leaves the node nobody refers to where it is
ReadNodeKeep(S, thread, node) == S

\* the node work finds the node neither strongly nor weakly held: the node
\* leaves proc->nodes and is freed
ReadNodeDelete(S, thread, node) ==
  binder_free_node([S EXCEPT !.procs[TProc(thread)].nodes = @ \ {node}], node)

\* case BINDER_WORK_NODE of the read loop
ReadNodeWork(S, thread, node) ==
  LET N == S.nodes[node]
      strong == N.internal_strong_refs # 0 \/ N.local_strong_refs # 0
      weak == N.refs # {} \/ N.local_weak_refs # 0 \/ N.tmp_refs # 0 \/ strong
      has_strong_ref == N.has_strong_ref
      has_weak_ref == N.has_weak_ref
      N1 == IF weak /\ ~has_weak_ref
            THEN [N EXCEPT !.has_weak_ref = TRUE, !.pending_weak_ref = TRUE,
                           !.local_weak_refs = @ + 1]
            ELSE N
      N2 == IF strong /\ ~has_strong_ref
            THEN [N1 EXCEPT !.has_strong_ref = TRUE, !.pending_strong_ref = TRUE,
                            !.local_strong_refs = @ + 1]
            ELSE N1
      N3 == IF ~strong /\ has_strong_ref THEN [N2 EXCEPT !.has_strong_ref = FALSE] ELSE N2
      N4 == IF ~weak /\ has_weak_ref THEN [N3 EXCEPT !.has_weak_ref = FALSE] ELSE N3
      S1 == [S EXCEPT !.nodes[node] = N4]
      S2 == IF ~weak /\ ~strong THEN ReadNodeDelete(S1, thread, node) ELSE S1
      cmds == (IF weak /\ ~has_weak_ref THEN <<"BR_INCREFS">> ELSE <<>>)
              \o (IF strong /\ ~has_strong_ref THEN <<"BR_ACQUIRE">> ELSE <<>>)
              \o (IF ~strong /\ has_strong_ref THEN <<"BR_RELEASE">> ELSE <<>>)
              \o (IF ~weak /\ has_weak_ref THEN <<"BR_DECREFS">> ELSE <<>>)
  IN IF N.proc # TProc(thread) THEN Bug(S, "read: node work of another process")
     ELSE [S2 EXCEPT !.out[thread] =
             @ \o [i \in 1..Len(cmds) |-> Rec(cmds[i], N.ptr, N.cookie, 0, node)]]

\* a read that takes every death work for BINDER_WORK_DEAD_BINDER
ReadDeathWorkAsDead(S, thread, d) ==
  binder_enqueue_work_ilocked(
    Emit(S, thread, Rec("BR_DEAD_BINDER", 0, S.deaths[d].cookie, 0, d)),
    WDeath(d), DeliveredDeath(TProc(thread)))

\* case BINDER_WORK_DEAD_BINDER .. CLEAR_DEATH_NOTIFICATION of the read loop
ReadDeathWork(S, thread, d) ==
  LET clear == S.deaths[d].type = "CLEAR_DEATH_NOTIFICATION"
      S1 == Emit(S, thread,
                 Rec(IF clear THEN "BR_CLEAR_DEATH_NOTIFICATION_DONE" ELSE "BR_DEAD_BINDER",
                     0, S.deaths[d].cookie, 0, d))
  IN IF clear THEN [S1 EXCEPT !.deaths[d].st = "freed"]
     ELSE binder_enqueue_work_ilocked(S1, WDeath(d), DeliveredDeath(TProc(thread)))

\* the tail of the read loop: a transaction is handed to the thread
ReadTransaction(S, thread, t) ==
  LET b == S.txns[t].buffer
      target_node == S.bufs[b].target_node
      N == S.nodes[target_node]
      T == S.txns[t]
      saved == S.nice[thread]
      Ss == [S EXCEPT !.txns[t].saved_priority = saved]
      S1 == IF target_node # 0
            THEN IF T.priority < N.min_priority /\ ~T.one_way
                 THEN binder_set_nice(Ss, thread, T.priority)
                 ELSE IF ~T.one_way \/ saved > N.min_priority
                 THEN binder_set_nice(Ss, thread, N.min_priority)
                 ELSE Ss
            ELSE S
      Stack(S4) ==
        IF target_node # 0 /\ ~T.one_way
        THEN [S4 EXCEPT !.txns[t].to_parent = S4.threads[thread].transaction_stack,
                        !.txns[t].to_thread = thread,
                        !.threads[thread].transaction_stack = t]
        ELSE binder_free_transaction(S4, t)
      From(g) ==
        Stack([(IF g.ret # 0 THEN binder_thread_dec_tmpref(g.S, g.ret) ELSE g.S)
                 EXCEPT !.bufs[b].allow_user_free = TRUE])
  IN IF b = 0 THEN Bug(S, "read: transaction without buffer")
     ELSE IF target_node # 0 /\ N.st = "freed" THEN Bug(S, "read: target node was freed")
     ELSE From(binder_get_txn_from(
                 Emit(S1, thread,
                      IF target_node # 0
                      THEN Rec("BR_TRANSACTION", N.ptr, N.cookie, T.code, t)
                      ELSE Rec("BR_REPLY", 0, 0, T.code, t)),
                 t))

\* a reader that takes the work of the process whenever its own todo is
\* empty
ReadListAnyWork(S, thread, wait_for_proc_work) ==
  IF S.threads[thread].todo # <<>> THEN ThreadTodo(thread)
  ELSE IF S.procs[TProc(thread)].todo # <<>> THEN ProcTodo(TProc(thread))
  ELSE NoList

\* the list the loop takes its next work from
ReadList(S, thread, wait_for_proc_work) ==
  IF S.threads[thread].todo # <<>> THEN ThreadTodo(thread)
  ELSE IF S.procs[TProc(thread)].todo # <<>> /\ wait_for_proc_work
  THEN ProcTodo(TProc(thread))
  ELSE NoList

\* The loop of binder_thread_read after the wait.  room: how many more
\* works the user's buffer takes; added: something was written after the
\* BR_NOOP.  how: "retry" (back to the wait) or "done".
RECURSIVE ReadLoop(_, _, _, _, _)
ReadLoop(S, thread, wait_for_proc_work, room, added) ==
  LET proc == TProc(thread)
      list == ReadList(S, thread, wait_for_proc_work)
      Node(Sn, S1) ==
        ReadLoop(Sn, thread, wait_for_proc_work, room - 1,
                 added \/ Len(Sn.out[thread]) > Len(S1.out[thread]))
      Work(S1, w) ==
        CASE w.kind = "transaction" ->
               [S |-> ReadTransaction(S1, thread, w.id), how |-> "done"]
          [] w.kind = "return_error" ->
               ReadLoop([Emit(S1, thread, Rec(S1.threads[w.id].return_error, 0, 0, 0,
                                              S1.threads[w.id].return_error_id))
                           EXCEPT !.threads[w.id].return_error = "BR_OK"],
                        thread, wait_for_proc_work, room - 1, TRUE)
          [] w.kind = "reply_error" ->
               ReadLoop([Emit(S1, thread, Rec(S1.threads[w.id].reply_error, 0, 0, 0,
                                              S1.threads[w.id].reply_error_id))
                           EXCEPT !.threads[w.id].reply_error = "BR_OK"],
                        thread, wait_for_proc_work, room - 1, TRUE)
          [] w.kind = "tcomplete" ->
               IF S1.tcs[w.id] = "freed"
               THEN [S |-> Bug(S1, "read: tcomplete was freed"), how |-> "done"]
               ELSE ReadLoop([Emit(S1, thread, Rec("BR_TRANSACTION_COMPLETE", 0, 0, 0, w.id))
                                EXCEPT !.tcs[w.id] = "freed"],
                             thread, wait_for_proc_work, room - 1, TRUE)
          [] w.kind = "node" -> Node(ReadNodeWork(S1, thread, w.id), S1)
          [] w.kind = "death" ->
               IF S1.deaths[w.id].type = "CLEAR_DEATH_NOTIFICATION"
               THEN ReadLoop(ReadDeathWork(S1, thread, w.id),
                             thread, wait_for_proc_work, room - 1, TRUE)
               ELSE [S |-> ReadDeathWork(S1, thread, w.id), how |-> "done"]
  IN IF list = NoList
     THEN IF ~added /\ ~S.threads[thread].looper_need_return
          THEN [S |-> S, how |-> "retry"] ELSE [S |-> S, how |-> "done"]
     ELSE IF room = 0 THEN [S |-> S, how |-> "done"]
     ELSE Work(SetList(S, list, Tail(ListOf(S, list))), Head(ListOf(S, list)))

\* retry: what binder_thread_read does before it drops the lock to wait
ReadPrepare(S, thread) ==
  LET wait_for_proc_work == S.threads[thread].transaction_stack = 0
                            /\ S.threads[thread].todo = <<>>
      S1 == [S EXCEPT !.threads[thread].looper = @ \cup {"WAITING"}]
      S2 == IF wait_for_proc_work
            THEN binder_set_nice([S1 EXCEPT !.procs[TProc(thread)].ready_threads = @ + 1],
                                 thread, S1.procs[TProc(thread)].default_priority)
            ELSE S1
  IN Ret(S2, wait_for_proc_work)

\* an end of binder_thread_read that asks for a thread however many it
\* has asked for already
ReadDone_unrequested(S, thread, start) ==
  LET P == S.procs[TProc(thread)]
      o == S.out[thread]
  IN IF /\ P.ready_threads = 0
        /\ P.requested_threads_started < P.max_threads
        /\ S.threads[thread].looper \cap {"REGISTERED", "ENTERED"} # {}
     THEN [S EXCEPT !.procs[TProc(thread)].requested_threads = @ + 1,
                    !.out[thread] = SubSeq(o, 1, start)
                                    \o <<Rec("BR_SPAWN_LOOPER", 0, 0, 0, 0)>>
                                    \o SubSeq(o, start + 1, Len(o))]
     ELSE S

\* done: the end of binder_thread_read
\* start: how many records the thread had read before this read; the
\* BR_SPAWN_LOOPER takes the place of the BR_NOOP that opens the buffer
ReadDone(S, thread, start) ==
  LET P == S.procs[TProc(thread)]
      o == S.out[thread]
  IN IF /\ P.requested_threads + P.ready_threads = 0
        /\ P.requested_threads_started < P.max_threads
        /\ IsLooper(S, thread)
     THEN [S EXCEPT !.procs[TProc(thread)].requested_threads = @ + 1,
                    !.out[thread] = SubSeq(o, 1, start)
                                    \o <<Rec("BR_SPAWN_LOOPER", 0, 0, 0, 0)>>
                                    \o SubSeq(o, start + 1, Len(o))]
     ELSE S

binder_has_proc_work(S, thread) ==
  S.procs[TProc(thread)].todo # <<>> \/ S.threads[thread].looper_need_return

binder_has_thread_work(S, thread) ==
  S.threads[thread].todo # <<>> \/ S.threads[thread].looper_need_return

(* ------------------------------- ioctls ------------------------------- *)
\* current_euid() of the threads of a process: processes 1 and 2 run under
\* one uid, process 3 under another
Euid(p) == IF p = 3 THEN 2 ELSE 1

\* a manager slot that is never seen as taken
SlotFree(S) == FALSE

\* the context has a manager node
SlotTaken(S) == S.ctx # 0

\* a manager slot that any uid may take once it is empty
SameUidAlways(S, curr_euid) == TRUE

\* the uid check of binder_ioctl_set_ctx_mgr
SameUid(S, curr_euid) == S.ctx_uid = 0 \/ S.ctx_uid = curr_euid

\* permitted: security_binder_set_context_mgr() returns 0.  ret: "OK" or the
\* errno
binder_ioctl_set_ctx_mgr(S, thread, permitted) ==
  LET curr_euid == Euid(TProc(thread))
      Node(new) ==
        IF new.ret = 0 THEN Ret(new.S, "ENOMEM")
        ELSE Ret(binder_put_node(
                   [new.S EXCEPT !.nodes[new.ret].local_weak_refs = @ + 1,
                                 !.nodes[new.ret].local_strong_refs = @ + 1,
                                 !.nodes[new.ret].has_strong_ref = TRUE,
                                 !.nodes[new.ret].has_weak_ref = TRUE,
                                 !.ctx = new.ret], new.ret), "OK")
  IN IF SlotTaken(S) THEN Ret(S, "EBUSY")
     ELSE IF ~permitted THEN Ret(S, "EACCES")
     ELSE IF ~SameUid(S, curr_euid) THEN Ret(S, "EPERM")
     ELSE Node(binder_new_node([S EXCEPT !.ctx_uid = curr_euid],
                               TProc(thread), 0, 0, 0, FALSE))

\* binder_ioctl up to the switch: the caller is a thread of an open file and
\* is not inside another ioctl
Ioctl(th) ==
  /\ bug = ""
  /\ rd[th].pc = "user"
  /\ ~procs[TProc(th)].is_dead
  /\ ~threads[th].is_dead

\* binder_ioctl from the switch on
IoctlExit(S, th) ==
  IF S.threads[th].exists THEN [S EXCEPT !.threads[th].looper_need_return = FALSE] ELSE S

\* a write that runs its command whatever return_error holds
Write_unguarded(th, S, done) ==
  /\ Commit(IoctlExit(done, th))
  /\ UNCHANGED rd

\* one command of a write buffer, in an ioctl of its own
Write(th, S, done) ==
  /\ Commit(IoctlExit(IF S.threads[th].return_error = "BR_OK" THEN done ELSE S, th))
  /\ UNCHANGED rd

BINDER_SET_CONTEXT_MGR(th, permitted) ==
  /\ Ioctl(th)
  /\ Commit(IoctlExit(binder_ioctl_set_ctx_mgr(binder_get_thread(Cur, th), th,
                                               permitted).S, th))
  /\ UNCHANGED rd

BINDER_SET_MAX_THREADS(th, n) ==
  /\ Ioctl(th)
  /\ Commit(IoctlExit([binder_get_thread(Cur, th) EXCEPT !.procs[TProc(th)].max_threads = n], th))
  /\ UNCHANGED rd

BINDER_THREAD_EXIT(th) ==
  /\ Ioctl(th)
  /\ Commit(binder_thread_release(binder_get_thread(Cur, th), th))
  /\ UNCHANGED rd

Write_BC_TRANSACTION(th, tr) ==
  /\ Ioctl(th)
  /\ FreeId(txns, 1..MaxTxn) # 0
  /\ LET S == binder_get_thread(Cur, th)
     IN Write(th, S, binder_transaction(S, th, tr, FALSE))

Write_BC_TRANSACTION_SG(th, tr, buffers_size) ==
  /\ Ioctl(th)
  /\ FreeId(txns, 1..MaxTxn) # 0
  /\ LET S == binder_get_thread(Cur, th)
     IN Write(th, S, binder_transaction(S, th, TrSg(tr, buffers_size), FALSE))

Write_BC_REPLY(th, tr) ==
  /\ Ioctl(th)
  /\ FreeId(txns, 1..MaxTxn) # 0
  /\ LET S == binder_get_thread(Cur, th)
     IN Write(th, S, binder_transaction(S, th, tr, TRUE))

Write_BC_FREE_BUFFER(th, data_ptr) ==
  /\ Ioctl(th)
  /\ LET S == binder_get_thread(Cur, th)
     IN Write(th, S, BC_FREE_BUFFER(S, th, data_ptr))

Write_BC_refs(th, target, increment, strong) ==
  /\ Ioctl(th)
  /\ LET S == binder_get_thread(Cur, th)
     IN Write(th, S, BC_refs(S, th, target, increment, strong))

Write_BC_refs_done(th, node_ptr, cookie, acquire) ==
  /\ Ioctl(th)
  /\ LET S == binder_get_thread(Cur, th)
     IN Write(th, S, BC_refs_done(S, th, node_ptr, cookie, acquire))

Write_BC_REGISTER_LOOPER(th) ==
  /\ Ioctl(th)
  /\ LET S == binder_get_thread(Cur, th)
     IN Write(th, S, BC_REGISTER_LOOPER(S, th))

Write_BC_ENTER_LOOPER(th) ==
  /\ Ioctl(th)
  /\ LET S == binder_get_thread(Cur, th)
     IN Write(th, S, BC_ENTER_LOOPER(S, th))

Write_BC_EXIT_LOOPER(th) ==
  /\ Ioctl(th)
  /\ LET S == binder_get_thread(Cur, th)
     IN Write(th, S, BC_EXIT_LOOPER(S, th))

Write_BC_REQUEST_DEATH_NOTIFICATION(th, target, cookie, alloc_fails) ==
  /\ Ioctl(th)
  /\ LET S == binder_get_thread(Cur, th)
     IN Write(th, S, BC_REQUEST_DEATH_NOTIFICATION(S, th, target, cookie, alloc_fails))

Write_BC_CLEAR_DEATH_NOTIFICATION(th, target, cookie) ==
  /\ Ioctl(th)
  /\ LET S == binder_get_thread(Cur, th)
     IN Write(th, S, BC_CLEAR_DEATH_NOTIFICATION(S, th, target, cookie))

Write_BC_DEAD_BINDER_DONE(th, cookie) ==
  /\ Ioctl(th)
  /\ LET S == binder_get_thread(Cur, th)
     IN Write(th, S, BC_DEAD_BINDER_DONE(S, th, cookie))

\* A read enters binder_thread_read and drops the lock to wait
ReadBegin(th) ==
  /\ Ioctl(th)
  /\ LET Wait(r) ==
           /\ Commit(r.S)
           /\ rd' = [rd EXCEPT ![th] = [pc |-> "wait", wait_for_proc_work |-> r.ret,
                                        start |-> Len(out[th])]]
     IN Wait(ReadPrepare(binder_get_thread(Cur, th), th))

\* the condition a thread waits for in binder_thread_read
ReadReady(th) ==
  /\ bug = ""
  /\ rd[th].pc = "wait"
  /\ IF rd[th].wait_for_proc_work THEN binder_has_proc_work(Cur, th)
     ELSE binder_has_thread_work(Cur, th)

\* The wait is over: the thread takes the lock and runs the loop, then
\* returns from the ioctl or goes back to waiting (retry)
ReadWake(th, room) ==
  /\ ReadReady(th)
  /\ LET wfpw == rd[th].wait_for_proc_work
         Retry(again) ==
           /\ Commit(again.S)
           /\ rd' = [rd EXCEPT ![th].wait_for_proc_work = again.ret]
         Loop(l) ==
           IF l.how = "retry" THEN Retry(ReadPrepare(l.S, th))
           ELSE /\ Commit(IoctlExit(ReadDone(l.S, th, rd[th].start), th))
                /\ rd' = [rd EXCEPT ![th] = [pc |-> "user", wait_for_proc_work |-> FALSE,
                                             start |-> 0]]
     IN Loop(ReadLoop([Cur EXCEPT !.threads[th].looper = @ \ {"WAITING"},
                                  !.procs[TProc(th)].ready_threads =
                                     IF wfpw THEN @ - 1 ELSE @],
                      th, wfpw, room, FALSE))

\* The wait ends with a signal, or the read was non-blocking and found no
\* work: binder_thread_read returns the error
ReadAbort(th) ==
  /\ bug = ""
  /\ rd[th].pc = "wait"
  /\ Commit(IoctlExit([Cur EXCEPT !.threads[th].looper = @ \ {"WAITING"},
                                  !.procs[TProc(th)].ready_threads =
                                     IF rd[th].wait_for_proc_work THEN @ - 1 ELSE @], th))
  /\ rd' = [rd EXCEPT ![th] = [pc |-> "user", wait_for_proc_work |-> FALSE, start |-> 0]]

\* binder_release followed by the deferred work: the file is closed once no
\* thread of the process is inside an ioctl
binder_release(p) ==
  /\ bug = ""
  /\ ~procs[p].is_dead
  /\ \A th \in Threads : TProc(th) = p => rd[th].pc = "user"
  /\ Commit(binder_deferred_release(Cur, p))
  /\ UNCHANGED rd

\* no spinlock is held, no thread is in a function that takes one, and the
\* nodes the lock paths use have their owners (node n: process n)
NoLocks ==
  [held |-> [th \in Threads |-> <<>>],
   calls |-> [th \in Threads |-> <<>>],
   proc |-> [n \in NodeIds |-> IF n <= NProcs THEN n ELSE 0]]

Init ==
  /\ procs = [p \in Procs |-> NewProc]
  /\ threads = [th \in Threads |-> NoThread]
  /\ nodes = [n \in NodeIds |-> NoNode]
  /\ refs = [r \in RefIds |-> NoRef]
  /\ deaths = [d \in DeathIds |-> NoDeath]
  /\ txns = [t \in TxnIds |-> NoTxn]
  /\ bufs = [t \in TxnIds |-> NoBuf]
  /\ tcs = [t \in TxnIds |-> "none"]
  /\ ctx = 0
  /\ ctx_uid = 0
  /\ dead_nodes = {}
  /\ nice = [th \in Threads |-> 0]
  /\ rd = [th \in Threads |-> [pc |-> "user", wait_for_proc_work |-> FALSE, start |-> 0]]
  /\ out = [th \in Threads |-> <<>>]
  /\ sent = <<>>
  /\ bug = ""
  /\ locks = NoLocks

(* ------------------- synchronous calls to the manager ----------------- *)
\* Process 1 becomes the context manager; the threads of process 2 call
\* handle 0 and those of process 1 reply.  Threads exit and files close.
MaxRoom == 3
Rooms == {1, MaxRoom}
Codes == {7}
SyncProcs == {1, 2}
SyncThreads == {Thr(1, 1), Thr(1, 2), Thr(2, 1)}
SyncTrs == {Tr(0, c, FALSE, <<>>, "none") : c \in Codes}

NextSync ==
  \/ \E th \in SyncThreads : TProc(th) = 1 /\ BINDER_SET_CONTEXT_MGR(th, TRUE)
  \/ \E th \in SyncThreads : TProc(th) = 1 /\ Write_BC_ENTER_LOOPER(th)
  \/ \E th \in SyncThreads : TProc(th) = 2 /\ \E tr \in SyncTrs : Write_BC_TRANSACTION(th, tr)
  \/ \E th \in SyncThreads : TProc(th) = 1 /\ Write_BC_REPLY(th, Tr(0, 0, FALSE, <<>>, "none"))
  \/ \E th \in SyncThreads : \E b \in TxnIds : Write_BC_FREE_BUFFER(th, b)
  \/ \E th \in SyncThreads : ReadBegin(th)
  \/ \E th \in SyncThreads : \E room \in Rooms : ReadWake(th, room)
  \/ \E th \in SyncThreads : ReadAbort(th)
  \/ \E th \in SyncThreads : BINDER_THREAD_EXIT(th)
  \/ \E p \in SyncProcs : binder_release(p)

SpecSync == Init /\ [][NextSync]_vars

NoBug == bug = ""

(* ------------------------ properties: histories ----------------------- *)
\* the call of binder_transaction with debug id t (sent is ordered by
\* time); WasSent: the call queued its transaction, Failed: it left through
\* the error labels
Called(t) == \E k \in 1..Len(sent) : sent[k].t = t
WasSent(t) == \E k \in 1..Len(sent) : sent[k].t = t /\ sent[k].error = "BR_OK"
Failed(t) == \E k \in 1..Len(sent) : sent[k].t = t /\ sent[k].error # "BR_OK"
SentAt(t) == CHOOSE k \in 1..Len(sent) : sent[k].t = t
Sent(t) == sent[SentAt(t)]
\* the positions of thread th's history that hold cmd for object id
ReadAt(th, cmd, id) ==
  {i \in 1..Len(out[th]) : out[th][i].cmd = cmd /\ out[th][i].id = id}
HasRead(th, cmd, id) == ReadAt(th, cmd, id) # {}

\* C1: a synchronous call to handle 0 with code k.  Whoever reads its
\* BR_TRANSACTION is a thread of the manager and reads target ptr 0, cookie 0
\* and code k; whoever reads a BR_REPLY is the caller of the call replied
\* to, has read that call's BR_TRANSACTION_COMPLETE earlier, and the reply
\* was written with BC_REPLY by the thread that had read the BR_TRANSACTION.
C1_SyncCallToManager ==
  \A th \in Threads : \A i \in 1..Len(out[th]) :
    LET r == out[th][i]
    IN /\ (r.cmd = "BR_TRANSACTION" /\ Sent(r.id).handle = 0 /\ ~Sent(r.id).one_way)
            => /\ r.ptr = 0 /\ r.cookie = 0 /\ r.code = Sent(r.id).code
               /\ TProc(th) = Sent(r.id).to_proc
               /\ TProc(th) # TProc(Sent(r.id).from)
       /\ r.cmd = "BR_REPLY"
            => /\ WasSent(r.id) /\ Sent(r.id).reply
               /\ LET call == Sent(r.id).in_reply_to
                  IN /\ WasSent(call) /\ Sent(call).from = th
                     /\ SentAt(call) < SentAt(r.id)
                     /\ \E j \in 1..(i - 1) :
                          out[th][j].cmd = "BR_TRANSACTION_COMPLETE" /\ out[th][j].id = call
                     /\ HasRead(Sent(r.id).from, "BR_TRANSACTION", call)

\* a call of code 7 to handle 0 went all the way: the caller has read
\* BR_TRANSACTION_COMPLETE and BR_REPLY, a manager thread the BR_TRANSACTION
C1_Witness ==
  \E th \in Threads, m \in Threads, t \in TxnIds, r \in TxnIds :
    /\ WasSent(t) /\ Sent(t).handle = 0 /\ Sent(t).from = th /\ Sent(t).code = 7
    /\ ~Sent(t).one_way /\ ~Sent(t).reply
    /\ HasRead(th, "BR_TRANSACTION_COMPLETE", t)
    /\ HasRead(m, "BR_TRANSACTION", t)
    /\ WasSent(r) /\ Sent(r).in_reply_to = t /\ Sent(r).from = m
    /\ HasRead(th, "BR_REPLY", r)

(* --------------------- one-way calls to the manager ------------------- *)
\* Process 1 becomes the context manager; process 2 takes references on
\* handle 0 and sends one-way transactions to it; the threads of process 1
\* read them and free their buffers.  Threads exit and files close.
MaxCount == 2
AsyncProcs == {1, 2}
AsyncThreads == {Thr(1, 1), Thr(1, 2), Thr(2, 1)}
AsyncTrs == {Tr(0, c, TRUE, <<>>, "none") : c \in Codes}

NextAsync ==
  \/ \E th \in AsyncThreads : TProc(th) = 1 /\ BINDER_SET_CONTEXT_MGR(th, TRUE)
  \/ \E th \in AsyncThreads :
       /\ TProc(th) = 2
       /\ \A r \in RefIds : refs[r].strong < MaxCount
       /\ Write_BC_refs(th, 0, TRUE, TRUE)
  \/ \E th \in AsyncThreads : TProc(th) = 2 /\ \E tr \in AsyncTrs : Write_BC_TRANSACTION(th, tr)
  \/ \E th \in AsyncThreads : TProc(th) = 1 /\ \E b \in TxnIds : Write_BC_FREE_BUFFER(th, b)
  \/ \E th \in AsyncThreads : TProc(th) = 1 /\ ReadBegin(th)
  \/ \E th \in AsyncThreads : \E room \in Rooms : ReadWake(th, room)
  \/ \E th \in AsyncThreads : ReadAbort(th)
  \/ \E th \in AsyncThreads : BINDER_THREAD_EXIT(th)
  \/ \E p \in AsyncProcs : binder_release(p)

SpecAsync == Init /\ [][NextAsync]_vars

\* some thread has read cmd for object id
ReadBy(cmd, id) == \E th \in Threads : HasRead(th, cmd, id)
\* t1 and then t2 were sent one-way to the same node
AsyncPair(t1, t2) ==
  /\ WasSent(t1) /\ WasSent(t2)
  /\ Sent(t1).one_way /\ Sent(t2).one_way
  /\ Sent(t1).node = Sent(t2).node
  /\ SentAt(t1) < SentAt(t2)

\* C2: one-way transactions #1 and then #2 to the same node.  Once a thread
\* has read BR_TRANSACTION for #2, a thread of the receiving process has
\* read BR_TRANSACTION for #1 and #1's buffer was freed with BC_FREE_BUFFER.
C2_AsyncInSendOrder ==
  \A t1 \in TxnIds, t2 \in TxnIds :
    (AsyncPair(t1, t2) /\ ReadBy("BR_TRANSACTION", t2))
      => /\ \E th \in Threads : /\ TProc(th) = Sent(t1).to_proc
                                 /\ HasRead(th, "BR_TRANSACTION", t1)
         /\ bufs[t1].freed_by = "user"

\* #2 waited on the node's async_todo, and was read after #1 was freed
C2_Witness ==
  \E t1 \in TxnIds, t2 \in TxnIds :
    /\ AsyncPair(t1, t2)
    /\ Sent(t2).list = AsyncTodo(Sent(t2).node)
    /\ ReadBy("BR_TRANSACTION", t1) /\ ReadBy("BR_TRANSACTION", t2)
    /\ bufs[t1].freed_by = "user"

\* an allocated buffer of a one-way transaction to node n
AsyncOutstanding(n) ==
  \E b \in TxnIds : /\ bufs[b].st = "alloc" /\ bufs[b].async_transaction
                     /\ bufs[b].target_node = n

\* C10: for every node, has_async_transaction is set if and only if a
\* buffer of a one-way transaction to the node is allocated or the node's
\* async_todo is not empty
C10_AllNodes ==
  \A n \in NodeIds :
    nodes[n].st = "alive"
      => (nodes[n].has_async_transaction
            <=> (AsyncOutstanding(n) \/ nodes[n].async_todo # <<>>))

\* the same for the nodes that still have their owner
C10_LiveNodes ==
  \A n \in NodeIds :
    (nodes[n].st = "alive" /\ nodes[n].proc # 0)
      => (nodes[n].has_async_transaction
            <=> (AsyncOutstanding(n) \/ nodes[n].async_todo # <<>>))

(* ---------------------------- nested calls ---------------------------- *)
\* Process 1 becomes the context manager.  A thread of process 2 calls
\* handle 0 and passes its own binder object along, which gives process 1
\* handle 1; the threads of process 1 call handle 0 (their own process) or
\* handle 1 while they handle a call, and everybody replies.
NestedThreads == {Thr(1, 1), Thr(1, 2), Thr(2, 1)}
NestedCalls == {Tr(h, c, FALSE, <<>>, "none") : h \in {0, 1}, c \in Codes}
NestedFirst == {Tr(0, c, FALSE, <<Obj("BINDER", 1, 1)>>, "none") : c \in Codes}

NextNested ==
  \/ \E th \in NestedThreads : TProc(th) = 1 /\ BINDER_SET_CONTEXT_MGR(th, TRUE)
  \/ \E th \in NestedThreads : TProc(th) = 2 /\ \E tr \in NestedFirst : Write_BC_TRANSACTION(th, tr)
  \/ \E th \in NestedThreads : TProc(th) = 1 /\ \E tr \in NestedCalls : Write_BC_TRANSACTION(th, tr)
  \/ \E th \in NestedThreads : Write_BC_REPLY(th, Tr(0, 0, FALSE, <<>>, "none"))
  \/ \E th \in NestedThreads : ReadBegin(th)
  \/ \E th \in NestedThreads : ReadWake(th, MaxRoom)

SpecNested == Init /\ [][NextNested]_vars

\* the first thread of process p among the senders of the transactions from
\* t down its from_parent chain (0: none)
RECURSIVE FirstFrom(_, _)
FirstFrom(t, p) ==
  IF t = 0 THEN 0
  ELSE IF txns[t].from # 0 /\ TProc(txns[t].from) = p THEN txns[t].from
  ELSE FirstFrom(txns[t].from_parent, p)

\* C3: a thread handling an incoming synchronous transaction (the top of
\* its stack) sends a synchronous transaction to a node of process P, and
\* a thread of P is the sender of a transaction of the chain from the top
\* of the stack along from_parent.  The new transaction is put on the todo
\* of the first such thread and not on P's todo, and only that thread reads
\* its BR_TRANSACTION.
C3_NestedCallSteered ==
  /\ [][Len(sent') = Len(sent) + 1 =>
          LET r == sent'[Len(sent')]
              top == threads[r.from].transaction_stack
              first == FirstFrom(top, r.to_proc)
          IN (/\ r.error = "BR_OK" /\ ~r.reply /\ ~r.one_way
              /\ top # 0 /\ txns[top].to_thread = r.from
              /\ first # 0)
               => /\ r.list = ThreadTodo(first)
                  /\ InSeq(WTxn(r.t), threads'[first].todo)
                  /\ ~InSeq(WTxn(r.t), procs'[r.to_proc].todo)]_vars
  /\ [](\A th \in Threads : \A i \in 1..Len(out[th]) :
          (out[th][i].cmd = "BR_TRANSACTION" /\ Sent(out[th][i].id).list.l = "thread")
            => Sent(out[th][i].id).list = ThreadTodo(th))

\* a call was steered to a thread that is not the sender of the top of the
\* caller's stack but of a transaction further down, and that thread read it
C3_Witness ==
  \E t \in TxnIds :
    /\ WasSent(t) /\ ~Sent(t).reply /\ ~Sent(t).one_way
    /\ Sent(t).list.l = "thread"
    /\ HasRead(Sent(t).list.id, "BR_TRANSACTION", t)
    /\ txns[t].st = "live" /\ txns[t].from_parent # 0
    /\ txns[txns[t].from_parent].st = "live"
    /\ txns[txns[t].from_parent].from # 0
    /\ TProc(txns[txns[t].from_parent].from) # Sent(t).to_proc

(* ------------------------ calls to a dead target ---------------------- *)
\* Process 1 becomes the context manager.  A thread of process 2 sends its
\* binder object to handle 0 in a one-way transaction, which gives process
\* 1 handle 1, or calls handle 0; the threads of process 1 call handle 1.
\* Either file may close at any time.
DeadThreads == {Thr(1, 1), Thr(2, 1)}
DeadProcs == {1, 2}
DeadAnnounce == {Tr(0, c, TRUE, <<Obj("BINDER", 1, 1)>>, "none") : c \in Codes}
DeadCalls == {Tr(0, c, FALSE, <<>>, "none") : c \in Codes}
DeadCallsBack == {Tr(1, c, FALSE, <<>>, "none") : c \in Codes}

NextDead ==
  \/ \E th \in DeadThreads : TProc(th) = 1 /\ BINDER_SET_CONTEXT_MGR(th, TRUE)
  \/ \E th \in DeadThreads :
       TProc(th) = 2 /\ \E tr \in DeadAnnounce \cup DeadCalls : Write_BC_TRANSACTION(th, tr)
  \/ \E th \in DeadThreads :
       TProc(th) = 1 /\ \E tr \in DeadCallsBack : Write_BC_TRANSACTION(th, tr)
  \/ \E th \in DeadThreads : ReadBegin(th)
  \/ \E th \in DeadThreads : \E room \in Rooms : ReadWake(th, room)
  \/ \E p \in DeadProcs : binder_release(p)

SpecDead == Init /\ [][NextDead]_vars

\* the owner of the node behind handle h of thread th's process has been
\* released (handle 0: the context manager there was is gone)
TargetReleased(th, h) ==
  IF h = 0
  THEN ctx = 0 /\ \E n \in NodeIds : nodes[n].st # "none" /\ nodes[n].ptr = 0
  ELSE \E r \in procs[TProc(th)].refs_by_desc :
         /\ refs[r].desc = h /\ refs[r].strong > 0
         /\ LET p == nodes[refs[r].node].proc IN p = 0 \/ procs[p].is_dead

\* a synchronous call (not a reply) in the log
SyncCall(r) == ~r.reply /\ ~r.one_way

RECURSIVE NearestTxn(_)
NearestTxn(t) ==
  IF t = 0 THEN 0
  ELSE IF txns[t].from # 0 THEN t
  ELSE NearestTxn(txns[t].from_parent)

\* the transactions from t along from_parent down to u
RECURSIVE ChainTo(_, _)
ChainTo(t, u) ==
  IF t = 0 THEN {}
  ELSE IF t = u THEN {t}
  ELSE {t} \cup ChainTo(txns[t].from_parent, u)

\* this step queues the reply to call t
RepliedNow(t) ==
  /\ Len(sent') = Len(sent) + 1
  /\ sent'[Len(sent')].reply
  /\ sent'[Len(sent')].error = "BR_OK"
  /\ sent'[Len(sent')].in_reply_to = t

\* this step gives up call t: the transaction is freed and no reply to it
\* is queued
AbandonedNow(t) ==
  /\ txns[t].st = "live" /\ txns[t].need_reply
  /\ txns'[t].st = "freed"
  /\ ~RepliedNow(t)

\* C5: a step that abandons a synchronous transaction queues exactly one
\* reply-error to the nearest thread of its from/from_parent chain that is
\* still there, pops that thread's stack past the failed transaction and
\* frees every transaction skipped on the way; a step that drops a one-way
\* transaction queues no reply-error for it.
C5_OneReplyError ==
  [][\A t \in TxnIds :
       /\ (AbandonedNow(t) /\ NearestTxn(t) # 0)
            => LET u == NearestTxn(t)
                   th == txns[u].from
               IN /\ ~InSeq(WReplyErr(th), threads[th].todo)
                  /\ InSeq(WReplyErr(th), threads'[th].todo)
                  /\ threads'[th].reply_error \in {"BR_DEAD_REPLY", "BR_FAILED_REPLY"}
                  /\ threads'[th].reply_error_id = u
                  /\ threads'[th].transaction_stack = txns[u].from_parent
                  /\ \A x \in ChainTo(t, u) : txns'[x].st = "freed"
       /\ (txns[t].st = "live" /\ txns[t].one_way /\ txns'[t].st = "freed")
            => \A th \in Threads :
                 threads'[th].reply_error # "BR_OK" => threads'[th].reply_error_id # t]_vars

(* ------------------------- death notifications ------------------------ *)
\* Process 1 becomes the context manager and closes its file at some
\* point.  The threads of process 2 take a weak reference on handle 0,
\* enter the looper, request and clear the death notification of handle 0,
\* read, and acknowledge the BR_DEAD_BINDER they have read.
Cookies == {5}
DeathThreads == {Thr(1, 1), Thr(2, 1), Thr(2, 2)}
Holders == {th \in DeathThreads : TProc(th) = 2}

NextDeath ==
  \/ \E th \in DeathThreads : TProc(th) = 1 /\ BINDER_SET_CONTEXT_MGR(th, TRUE)
  \/ \E th \in Holders :
       /\ \A r \in RefIds : refs[r].weak < 1
       /\ Write_BC_refs(th, 0, TRUE, FALSE)
  \/ \E th \in Holders : "ENTERED" \notin threads[th].looper /\ Write_BC_ENTER_LOOPER(th)
  \/ \E th \in Holders : \E c \in Cookies :
       /\ FreeId(deaths, DeathIds) # 0
       /\ Write_BC_REQUEST_DEATH_NOTIFICATION(th, 0, c, FALSE)
  \/ \E th \in Holders : \E c \in Cookies : Write_BC_CLEAR_DEATH_NOTIFICATION(th, 0, c)
  \/ \E th \in Holders : \E c \in Cookies : Write_BC_DEAD_BINDER_DONE(th, c)
  \/ \E th \in Holders : ReadBegin(th)
  \/ \E th \in Holders : ReadWake(th, MaxRoom)
  \/ binder_release(1)

SpecDeath == Init /\ [][NextDeath]_vars

\* The holder keeps reading: each of its threads comes back to
\* binder_thread_read (weak fairness of ReadBegin).  A thread that waits
\* there is woken when there is work for it (wake_up_interruptible): weak
\* fairness of ReadWake, written out with ReadReady, the condition under
\* which ReadWake is enabled.
SpecDeathFair ==
  /\ SpecDeath
  /\ \A th \in Holders :
       /\ WF_vars(ReadBegin(th))
       /\ []<>(~ReadReady(th)) \/ []<><<ReadWake(th, MaxRoom)>>_vars

\* the registration d is the death of a reference (it has not been cleared)
Registered(d) ==
  deaths[d].st = "live" /\ \E r \in RefIds : refs[r].st = "live" /\ refs[r].death = d
\* the node of registration d's reference has lost its owner
OwnerReleased(d) ==
  \E r \in RefIds : /\ refs[r].st = "live" /\ refs[r].death = d
                     /\ nodes[refs[r].node].proc = 0
\* how many times cmd was read for registration d
TimesRead(cmd, d) ==
  Cardinality({<<th, i>> \in Threads \X (1..(2 * MaxDeaths + MaxTxn + 4)) :
                 i \in ReadAt(th, cmd, d)})
\* the first work of the process's delivered_death with this cookie (0: none)
FirstDelivered(p, c) ==
  LET dd == procs[p].delivered_death
      hits == {i \in 1..Len(dd) : deaths[dd[i].id].cookie = c}
  IN IF hits = {} THEN 0 ELSE dd[Min(hits)].id
\* this step is a BC_DEAD_BINDER_DONE of the holder that finds registration d
AckedNow(d) ==
  \E th \in Holders :
    /\ FirstDelivered(TProc(th), deaths[d].cookie) = d
    /\ Write_BC_DEAD_BINDER_DONE(th, deaths[d].cookie)
\* this step is the BC_CLEAR_DEATH_NOTIFICATION of registration d
ClearedNow(d) == Registered(d) /\ ~Registered(d)'
\* the work lists of the holder are as before
SameLists ==
  /\ \A p \in Procs : /\ procs'[p].todo = procs[p].todo
                      /\ procs'[p].delivered_death = procs[p].delivered_death
  /\ \A th \in Threads : threads'[th].todo = threads[th].todo

\* C6: a registration that is not cleared.  Once the owner of the node is
\* released the holder, which keeps reading, reads BR_DEAD_BINDER for it,
\* and at most once, whether it registered before or after the release;
\* the work is then on the holder's delivered_death, leaves it with the
\* BC_DEAD_BINDER_DONE of its cookie and in no other way.
C6_DeadBinderOnce ==
  /\ \A d \in DeathIds :
       (Registered(d) /\ OwnerReleased(d)) ~> ReadBy("BR_DEAD_BINDER", d)
  /\ [](\A d \in DeathIds : TimesRead("BR_DEAD_BINDER", d) <= 1)
  /\ [][\A d \in DeathIds : \A th \in Holders :
          (Len(out'[th]) > Len(out[th])
           /\ out'[th][Len(out'[th])] = Rec("BR_DEAD_BINDER", 0, deaths[d].cookie, 0, d))
            => InSeq(WDeath(d), procs'[TProc(th)].delivered_death)]_vars
  /\ [][\A d \in DeathIds : \A p \in Procs :
          InSeq(WDeath(d), procs[p].delivered_death)
            => (AckedNow(d) <=> ~InSeq(WDeath(d), procs'[p].delivered_death))]_vars

\* a registration made before the owner's release and one made after it
\* have been read as BR_DEAD_BINDER; the second is not cleared and has been
\* acknowledged
C6_Witness ==
  \E d1 \in DeathIds, d2 \in DeathIds :
    /\ d1 # d2
    /\ ReadBy("BR_DEAD_BINDER", d1) /\ ReadBy("BR_DEAD_BINDER", d2)
    /\ ~deaths[d1].requested_dead /\ deaths[d2].requested_dead
    /\ deaths[d2].type = "DEAD_BINDER" /\ Registered(d2)
    /\ ~OnAList(Cur, WDeath(d2))

\* the registration was cleared while the owner of the node was alive: its
\* work is a clear work and was not read as BR_DEAD_BINDER before
ClearedAlive(d) ==
  /\ deaths[d].type = "CLEAR_DEATH_NOTIFICATION"
  /\ ~deaths[d].was_and_clear
  /\ ~ReadBy("BR_DEAD_BINDER", d)

\* C7: a registration requested and then cleared while the owner of the
\* node is alive.  The clear queues a clear work; the holder reads
\* BR_CLEAR_DEATH_NOTIFICATION_DONE for it, once, and never BR_DEAD_BINDER,
\* whatever happens to the owner later.
C7_ClearedWhileAlive ==
  /\ [][\A d \in DeathIds :
          (ClearedNow(d) /\ deaths[d].type = "none")
            => ClearedAlive(d)' /\ OnAList(Cur, WDeath(d))']_vars
  /\ [][\A d \in DeathIds : ClearedAlive(d) => ClearedAlive(d)']_vars
  /\ [](\A d \in DeathIds : TimesRead("BR_CLEAR_DEATH_NOTIFICATION_DONE", d) <= 1)
  /\ \A d \in DeathIds :
       ClearedAlive(d) ~> ReadBy("BR_CLEAR_DEATH_NOTIFICATION_DONE", d)

\* a registration was cleared while the owner was alive, the owner has been
\* released since, and the holder has read the clear
C7_Witness ==
  \E d \in DeathIds :
    /\ ClearedAlive(d)
    /\ ReadBy("BR_CLEAR_DEATH_NOTIFICATION_DONE", d)
    /\ dead_nodes # {}

\* C8: a clear of a registration whose DEAD_BINDER work is on a todo list
\* or on delivered_death.  The work becomes DEAD_BINDER_AND_CLEAR where it
\* is; the holder reads BR_DEAD_BINDER for it if it has not; no
\* BR_CLEAR_DEATH_NOTIFICATION_DONE is read while the work is dead-and-clear,
\* which ends with the holder's BC_DEAD_BINDER_DONE only; after that the
\* holder reads BR_CLEAR_DEATH_NOTIFICATION_DONE, once.
C8_ClearAfterDeath ==
  /\ [][\A d \in DeathIds :
          (ClearedNow(d) /\ OnAList(Cur, WDeath(d)))
            => /\ deaths[d].type = "DEAD_BINDER"
               /\ deaths'[d].type = "DEAD_BINDER_AND_CLEAR"
               /\ SameLists]_vars
  /\ [](\A d \in DeathIds :
          /\ deaths[d].type = "DEAD_BINDER_AND_CLEAR"
               => ~ReadBy("BR_CLEAR_DEATH_NOTIFICATION_DONE", d)
          /\ TimesRead("BR_CLEAR_DEATH_NOTIFICATION_DONE", d) <= 1
          /\ TimesRead("BR_DEAD_BINDER", d) <= 1)
  /\ [][\A d \in DeathIds :
          (deaths[d].type = "DEAD_BINDER_AND_CLEAR"
           /\ deaths'[d].type # "DEAD_BINDER_AND_CLEAR")
            => /\ ReadBy("BR_DEAD_BINDER", d)
               /\ AckedNow(d)
               /\ deaths'[d].type = "CLEAR_DEATH_NOTIFICATION"
               /\ OnAList(Cur, WDeath(d))']_vars
  /\ \A d \in DeathIds :
       /\ deaths[d].type = "DEAD_BINDER_AND_CLEAR" ~> ReadBy("BR_DEAD_BINDER", d)
       /\ (deaths[d].was_and_clear /\ deaths[d].type = "CLEAR_DEATH_NOTIFICATION")
            ~> ReadBy("BR_CLEAR_DEATH_NOTIFICATION_DONE", d)

\* a registration was cleared while its DEAD_BINDER work was still on a
\* todo list; BR_DEAD_BINDER and, after the acknowledgement,
\* BR_CLEAR_DEATH_NOTIFICATION_DONE have been read for it
C8_Witness ==
  \E d \in DeathIds :
    /\ deaths[d].was_and_clear
    /\ ReadBy("BR_DEAD_BINDER", d)
    /\ ReadBy("BR_CLEAR_DEATH_NOTIFICATION_DONE", d)
    /\ deaths[d].st = "freed"

(* ------------------------- transaction stacks ------------------------- *)
\* Process 1 becomes the context manager.  The thread of process 2 calls
\* handle 0 and passes its binder object along, which gives process 1
\* handle 1; the thread of process 1 calls handle 1 while it handles the
\* call, and both reply.  Threads exit and files close.
StackThreads == {Thr(1, 1), Thr(2, 1)}
StackProcs == {1, 2}
StackCallsBack == {Tr(1, c, FALSE, <<>>, "none") : c \in Codes}

NextStack ==
  \/ \E th \in StackThreads : TProc(th) = 1 /\ BINDER_SET_CONTEXT_MGR(th, TRUE)
  \/ \E th \in StackThreads : TProc(th) = 2 /\ \E tr \in NestedFirst : Write_BC_TRANSACTION(th, tr)
  \/ \E th \in StackThreads : TProc(th) = 1 /\ \E tr \in StackCallsBack : Write_BC_TRANSACTION(th, tr)
  \/ \E th \in StackThreads : Write_BC_REPLY(th, Tr(0, 0, FALSE, <<>>, "none"))
  \/ \E th \in StackThreads : ReadBegin(th)
  \/ \E th \in StackThreads : ReadWake(th, MaxRoom)
  \/ \E th \in StackThreads : BINDER_THREAD_EXIT(th)
  \/ \E p \in StackProcs : binder_release(p)

SpecStack == Init /\ [][NextStack]_vars

\* the transactions of th's stack from t on: an element sent by th links to
\* its from_parent, one received by th to its to_parent
RECURSIVE StackFrom(_, _, _)
StackFrom(th, t, n) ==
  IF t = 0 \/ n = 0 THEN {}
  ELSE {t} \cup StackFrom(th, IF txns[t].from = th THEN txns[t].from_parent
                               ELSE txns[t].to_parent, n - 1)
StackOf(th) ==
  IF threads[th].exists THEN StackFrom(th, threads[th].transaction_stack, MaxTxn)
  ELSE {}
\* the number of todo lists the transaction is on
TodoCount(t) ==
  Cardinality({p \in Procs : InSeq(WTxn(t), procs[p].todo)})
  + Cardinality({th \in Threads : InSeq(WTxn(t), threads[th].todo)})
\* a synchronous call that has been allocated
SyncTxn(t) == txns[t].st = "live" /\ txns[t].need_reply
IsTop(th, t) == th # 0 /\ threads[th].exists /\ threads[th].transaction_stack = t

\* C9 as stated: every synchronous transaction is on exactly one todo
\* list, or the top of its sender's stack, or the top of its receiver's
\* stack, or freed
C9_QueuedOrTop ==
  \A t \in TxnIds :
    SyncTxn(t) => \/ TodoCount(t) = 1
                  \/ IsTop(txns[t].from, t)
                  \/ IsTop(txns[t].to_thread, t)

\* C9: every synchronous transaction that is not freed is on exactly one
\* todo list, or somewhere on the stack of its sender or of its receiver,
\* or, once both have exited, is the from_parent of a transaction that is
\* not freed; it is on no second todo list.  A freed transaction is on no
\* todo list and on no stack.
C9_QueuedOrStacked ==
  \A t \in TxnIds :
    /\ SyncTxn(t)
         => /\ TodoCount(t) <= 1
            /\ \/ TodoCount(t) = 1
               \/ \E th \in {txns[t].from, txns[t].to_thread} \ {0} : t \in StackOf(th)
               \/ /\ txns[t].from = 0 /\ txns[t].to_thread = 0
                  /\ \E u \in TxnIds : txns[u].st = "live" /\ txns[u].from_parent = t
            /\ \A th \in Threads :
                 t \in StackOf(th) => th \in {txns[t].from, txns[t].to_thread}
    /\ txns[t].st = "freed"
         => /\ TodoCount(t) = 0
            /\ \A th \in Threads : t \notin StackOf(th)

\* a nested call: a transaction that is on the stack of its sender and on
\* the stack of its receiver and the top of neither, under a transaction
\* that its sender has received from its receiver
C9_Witness ==
  \E t \in TxnIds, u \in TxnIds :
    /\ SyncTxn(t) /\ TodoCount(t) = 0
    /\ txns[t].from # 0 /\ txns[t].to_thread # 0
    /\ t \in StackOf(txns[t].from) /\ t \in StackOf(txns[t].to_thread)
    /\ ~IsTop(txns[t].from, t) /\ ~IsTop(txns[t].to_thread, t)
    /\ SyncTxn(u) /\ txns[u].from_parent = t /\ txns[u].to_parent = t
    /\ IsTop(txns[t].from, u) /\ IsTop(txns[t].to_thread, u)

(* --------------------- freeing a one-way buffer ----------------------- *)
\* the transaction works of a list
TxnWorks(s) == SelectSeq(s, LAMBDA w : w.kind = "transaction")
\* this step is the BC_FREE_BUFFER of buffer b of a one-way transaction
AsyncFreedNow(b) ==
  /\ bufs[b].st = "alloc" /\ bufs[b].async_transaction /\ bufs[b].target_node # 0
  /\ bufs'[b].st = "freed" /\ bufs'[b].freed_by = "user"

\* C11: BC_FREE_BUFFER of the buffer of a one-way transaction to node n.
\* When n's async_todo is not empty its head, and nothing else, moves to the
\* tail of the todo of the freeing thread and has_async_transaction stays
\* set; when it is empty no transaction is queued anywhere and
\* has_async_transaction is cleared.
C11_FreePromotesHead ==
  [][\A b \in TxnIds :
       AsyncFreedNow(b) =>
         LET n == bufs[b].target_node
             q == nodes[n].async_todo
         IN /\ \A p \in Procs : TxnWorks(procs'[p].todo) = TxnWorks(procs[p].todo)
            /\ \A m \in NodeIds \ {n} : nodes'[m].async_todo = nodes[m].async_todo
            /\ IF q # <<>>
               THEN /\ nodes'[n].async_todo = Tail(q)
                    /\ nodes'[n].has_async_transaction
                    /\ \E th \in Threads :
                         /\ TProc(th) = bufs[b].proc
                         /\ threads'[th].todo = Append(threads[th].todo, Head(q))
                         /\ \A o \in Threads \ {th} : threads'[o].todo = threads[o].todo
               ELSE /\ nodes'[n].async_todo = <<>>
                    /\ ~nodes'[n].has_async_transaction
                    /\ \A th \in Threads : threads'[th].todo = threads[th].todo]_vars

\* #2 waited on the node's async_todo and was promoted by the free of #1's
\* buffer, read and freed in its turn, which found async_todo empty
C11_Witness ==
  \E t1 \in TxnIds, t2 \in TxnIds :
    /\ AsyncPair(t1, t2)
    /\ Sent(t2).list = AsyncTodo(Sent(t2).node)
    /\ ReadBy("BR_TRANSACTION", t2)
    /\ bufs[t1].freed_by = "user" /\ bufs[t2].freed_by = "user"
    /\ nodes[Sent(t2).node].proc # 0
    /\ ~nodes[Sent(t2).node].has_async_transaction

(* --------------------------- reference counts ------------------------- *)
\* Process 1 becomes the context manager.  The thread of process 2 sends
\* its binder object to handle 0 in one-way transactions, which gives
\* process 1 handle 1; process 1 reads them, frees the buffers and takes
\* and drops strong and weak references on handle 1; process 2 reads what
\* becomes of its node and acknowledges.  Either file may close.
MaxSends == 2
RefThreads == {Thr(1, 1), Thr(2, 1)}
RefProcs == {1, 2}
RefAnnounce == {Tr(0, c, TRUE, <<Obj("BINDER", 1, 1)>>, "none") : c \in Codes}

NextRefs ==
  \/ \E th \in RefThreads : TProc(th) = 1 /\ BINDER_SET_CONTEXT_MGR(th, TRUE)
  \/ \E th \in RefThreads :
       /\ TProc(th) = 2 /\ Len(sent) < MaxSends
       /\ \E tr \in RefAnnounce : Write_BC_TRANSACTION(th, tr)
  \/ \E th \in RefThreads : \E inc \in BOOLEAN, strong \in BOOLEAN :
       /\ TProc(th) = 1
       /\ \A r \in RefIds : refs[r].strong <= MaxCount /\ refs[r].weak <= MaxCount
       /\ Write_BC_refs(th, 1, inc, strong)
  \/ \E th \in RefThreads : \E acquire \in BOOLEAN :
       TProc(th) = 2 /\ Write_BC_refs_done(th, 1, 1, acquire)
  \/ \E th \in RefThreads : \E b \in TxnIds : TProc(th) = 1 /\ Write_BC_FREE_BUFFER(th, b)
  \/ \E th \in RefThreads : ReadBegin(th)
  \/ \E th \in RefThreads : ReadWake(th, MaxRoom)
  \/ \E p \in RefProcs : binder_release(p)

SpecRefs == Init /\ [][NextRefs]_vars

\* the node is reachable from an index: the nodes of a process or
\* binder_dead_nodes
Indexed(n) == (\E p \in Procs : n \in procs[p].nodes) \/ n \in dead_nodes
\* tmp_refs + |refs| + local_strong_refs + local_weak_refs
Holds(n) ==
  nodes[n].tmp_refs + Cardinality(nodes[n].refs)
  + nodes[n].local_strong_refs + nodes[n].local_weak_refs

LiveRefs(p) == {r \in RefIds : refs[r].st = "live" /\ refs[r].proc = p}

\* C13: every live reference of a process is in the process's by-handle
\* index and in its by-node index, which hold nothing else, and in the refs
\* of its node; a process has at most one reference to a node
C13_RefIndexed ==
  /\ \A p \in Procs :
       /\ procs[p].refs_by_desc = LiveRefs(p)
       /\ procs[p].refs_by_node = LiveRefs(p)
       /\ \A r1 \in LiveRefs(p), r2 \in LiveRefs(p) :
            refs[r1].node = refs[r2].node => r1 = r2
  /\ \A r \in RefIds :
       refs[r].st = "live"
         => /\ refs[r].node # 0 /\ nodes[refs[r].node].st = "alive"
            /\ r \in nodes[refs[r].node].refs
  /\ \A n \in NodeIds :
       nodes[n].st = "alive"
         => \A r \in nodes[n].refs : refs[r].st = "live" /\ refs[r].node = n

\* the same object was sent to the process twice and both transfers went
\* through the one reference
C13_Witness ==
  \E r \in RefIds :
    /\ refs[r].st = "live" /\ refs[r].strong >= 2
    /\ Len(sent) = 2 /\ \A i \in 1..2 : sent[i].error = "BR_OK"
    /\ nodes[refs[r].node].proc # refs[r].proc

(* ------------------------------ handles ------------------------------- *)
\* Process 1 becomes the context manager.  The thread of process 2 sends
\* its binder objects 1 and 2 to handle 0 in one-way transactions, which
\* gives process 1 handles for them; process 1 reads, frees the buffers and
\* releases its handles; process 2 reads what becomes of its nodes.
Ptrs == {1, 2}
HandleThreads == {Thr(1, 1), Thr(2, 1)}
HandleAnnounce == {Tr(0, 7, TRUE, <<Obj("BINDER", ptr, ptr)>>, "none") : ptr \in Ptrs}

NextHandles ==
  \/ \E th \in HandleThreads : TProc(th) = 1 /\ BINDER_SET_CONTEXT_MGR(th, TRUE)
  \/ \E th \in HandleThreads : TProc(th) = 2 /\ \E tr \in HandleAnnounce : Write_BC_TRANSACTION(th, tr)
  \/ \E th \in HandleThreads : \E h \in Ptrs : TProc(th) = 1 /\ Write_BC_refs(th, h, FALSE, TRUE)
  \/ \E th \in HandleThreads : \E b \in TxnIds : TProc(th) = 1 /\ Write_BC_FREE_BUFFER(th, b)
  \/ \E th \in HandleThreads : ReadBegin(th)
  \/ \E th \in HandleThreads : ReadWake(th, MaxRoom)

SpecHandles == Init /\ [][NextHandles]_vars

\* the handles in use in process p
Descs(p) == {refs[r].desc : r \in procs[p].refs_by_desc}
\* this step creates reference r
CreatedNow(r) == refs[r].st = "none" /\ refs'[r].st = "live"

\* C14: the references of a process have different handles, and a new
\* reference to a node that is not the context manager's gets the smallest
\* positive integer that is not a handle of the process
C14_SmallestFreeHandle ==
  /\ [](\A p \in Procs : \A r1 \in LiveRefs(p), r2 \in LiveRefs(p) :
          refs[r1].desc = refs[r2].desc => r1 = r2)
  /\ [][\A r \in RefIds :
          (CreatedNow(r) /\ refs'[r].node # ctx)
            => LET d == refs'[r].desc
                   used == Descs(refs'[r].proc)
               IN d >= 1 /\ d \notin used /\ \A k \in 1..(d - 1) : k \in used]_vars

\* a reference was given handle 1 while handle 2 was in use: handle 1 had
\* been released
C14_Witness ==
  \E r1 \in RefIds, r2 \in RefIds :
    /\ refs[r1].st = "live" /\ refs[r2].st = "live" /\ refs[r1].proc = refs[r2].proc
    /\ refs[r1].desc = 1 /\ refs[r2].desc = 2 /\ r1 > r2

(* --------------------------- context manager -------------------------- *)
\* Every process tries to become the context manager, with and without the
\* permission of the security hook; process 3 takes and drops references
\* on handle 0 and sends its binder object to handle 0.
\* The files of processes 1 and 2 may close.
ManagerThreads == {Thr(1, 1), Thr(2, 1), Thr(3, 1)}
ManagerProcs == {1, 2}
ManagerAnnounce == {Tr(0, c, TRUE, <<Obj("BINDER", 1, 1)>>, "none") : c \in Codes}

NextManager ==
  \/ \E th \in ManagerThreads : \E permitted \in BOOLEAN : BINDER_SET_CONTEXT_MGR(th, permitted)
  \/ \E th \in ManagerThreads : \E inc \in BOOLEAN :
       /\ TProc(th) = 3
       /\ \A r \in RefIds : refs[r].strong < MaxCount
       /\ Write_BC_refs(th, 0, inc, TRUE)
  \/ \E th \in ManagerThreads :
       /\ TProc(th) = 3 /\ Len(sent) < 1
       /\ \E tr \in ManagerAnnounce : Write_BC_TRANSACTION(th, tr)
  \/ \E th \in ManagerThreads : ReadBegin(th)
  \/ \E th \in ManagerThreads : ReadWake(th, MaxRoom)
  \/ \E p \in ManagerProcs : binder_release(p)

SpecManager == Init /\ [][NextManager]_vars

\* C15: a new reference to the node that is the context manager's gets
\* handle 0, a new reference to any other node a handle >= 1
C15_ManagerGetsHandleZero ==
  [][\A r \in RefIds :
       CreatedNow(r) => IF refs'[r].node = ctx THEN refs'[r].desc = 0
                        ELSE refs'[r].desc >= 1]_vars

(* ------------------------ node notifications -------------------------- *)
\* how many times cmd was read for node n
NodeReads(cmd, n) ==
  Cardinality(UNION {{<<th, i>> : i \in ReadAt(th, cmd, n)} : th \in Threads})
\* this step reads cmd for node n
NodeReadNow(cmd, n) ==
  \E th \in Threads :
    \E i \in (Len(out[th]) + 1)..Len(out'[th]) :
      out'[th][i].cmd = cmd /\ out'[th][i].id = n
\* the increment of a direction is pending on the node
Pending(N, strong) == IF strong THEN N.pending_strong_ref ELSE N.pending_weak_ref
Has(N, strong) == IF strong THEN N.has_strong_ref ELSE N.has_weak_ref
IncCmd(strong) == IF strong THEN "BR_ACQUIRE" ELSE "BR_INCREFS"
DecCmd(strong) == IF strong THEN "BR_RELEASE" ELSE "BR_DECREFS"

\* C16: for every node and direction the owner reads the increment and the
\* decrement in turn, the increment first: the increment is read when the
\* owner does not have the reference and makes it pending, the decrement
\* when it has it and no increment is pending.  BC_ACQUIRE_DONE and
\* BC_INCREFS_DONE clear a pending increment and change no node, reference
\* or list when none is pending.
C16_NotificationsAlternate ==
  /\ [](\A n \in NodeIds : \A strong \in BOOLEAN :
          LET d == NodeReads(IncCmd(strong), n) - NodeReads(DecCmd(strong), n)
          IN /\ d \in {0, 1}
             /\ (nodes[n].st = "alive" /\ nodes[n].proc # 0 /\ nodes[n].ptr # 0)
                  => (d = 1 <=> Has(nodes[n], strong)))
  /\ [][\A n \in NodeIds : \A strong \in BOOLEAN :
          /\ NodeReadNow(IncCmd(strong), n)
               => /\ ~Has(nodes[n], strong) /\ ~NodeReadNow(DecCmd(strong), n)
                  /\ Has(nodes'[n], strong) /\ Pending(nodes'[n], strong)
          /\ NodeReadNow(DecCmd(strong), n)
               => /\ Has(nodes[n], strong) /\ ~Pending(nodes[n], strong)
                  /\ ~Has(nodes'[n], strong)]_vars
  /\ [][\A th \in Threads : \A strong \in BOOLEAN :
          Write_BC_refs_done(th, 1, 1, strong)
            => LET n == FindNode(Cur, TProc(th), 1)
               IN IF n # 0 /\ Pending(nodes[n], strong)
                  THEN ~Pending(nodes'[n], strong)
                  ELSE /\ nodes' = nodes /\ refs' = refs /\ dead_nodes' = dead_nodes
                       /\ \A p \in Procs : /\ procs'[p].todo = procs[p].todo
                                           /\ procs'[p].nodes = procs[p].nodes
                       /\ \A o \in Threads : threads'[o].todo = threads[o].todo]_vars

\* the owner read BR_INCREFS and BR_ACQUIRE for its node, acknowledged both,
\* read BR_RELEASE and then BR_ACQUIRE again, which is pending
C16_Witness ==
  \E n \in NodeIds :
    /\ nodes[n].st = "alive" /\ nodes[n].ptr # 0
    /\ NodeReads("BR_ACQUIRE", n) = 2 /\ NodeReads("BR_RELEASE", n) = 1
    /\ NodeReads("BR_INCREFS", n) = 1
    /\ nodes[n].pending_strong_ref /\ ~nodes[n].pending_weak_ref

(* --------------------------- node destruction ------------------------- *)
\* the counters of node n and its refs are all zero (a freed node keeps the
\* values it had when it was freed)
AllZero(n) ==
  /\ nodes[n].internal_strong_refs = 0 /\ nodes[n].local_strong_refs = 0
  /\ nodes[n].local_weak_refs = 0 /\ nodes[n].tmp_refs = 0
  /\ nodes[n].refs = {}
\* node n was freed by the release of its owner, which held the only
\* temporary reference
FreedByRelease(n) ==
  /\ nodes[n].proc # 0 /\ procs[nodes[n].proc].is_dead
  /\ nodes[n].tmp_refs = 1
\* this step releases process p
ReleasedNow(p) == ~procs[p].is_dead /\ procs'[p].is_dead

\* C17 as stated: a node is freed only with internal_strong_refs,
\* local_strong_refs, local_weak_refs and tmp_refs zero and no refs, on
\* every path, the release of the owner included
C17_FreedAtZero ==
  \A n \in NodeIds : nodes[n].st = "freed" => AllZero(n)

\* C17: a node is freed only with no refs and internal_strong_refs zero;
\* the last decrement and the node work of a read free it with
\* local_strong_refs, local_weak_refs and tmp_refs zero too, the release of
\* the owner frees it whatever its local counts are, holding the one
\* temporary reference.  A node that processes other than its owner refer
\* to survives the release of the owner on the dead-nodes list, where it
\* has no owner and no local count and stays while it has a ref or a
\* temporary reference
C17_FreedUnreferenced ==
  /\ [](\A n \in NodeIds :
          /\ nodes[n].st = "freed"
               => /\ nodes[n].refs = {} /\ nodes[n].internal_strong_refs = 0
                  /\ AllZero(n) \/ FreedByRelease(n)
          /\ n \in dead_nodes
               => /\ nodes[n].st = "alive" /\ nodes[n].proc = 0
                  /\ nodes[n].local_strong_refs = 0 /\ nodes[n].local_weak_refs = 0
                  /\ nodes[n].refs # {} \/ nodes[n].tmp_refs > 0)
  /\ [][\A p \in Procs : \A n \in NodeIds :
          (/\ ReleasedNow(p) /\ n \in procs[p].nodes
           /\ \E r \in nodes[n].refs : refs[r].proc # p)
            => nodes'[n].st = "alive" /\ n \in dead_nodes']_vars

\* the manager's node was freed by the release of its owner with its local
\* counts set, the other node outlived its owner on the dead-nodes list and
\* was freed by the last decrement
C17_Witness ==
  \E n, m \in NodeIds :
    /\ nodes[n].st = "freed" /\ FreedByRelease(n)
    /\ nodes[n].local_strong_refs > 0 /\ nodes[n].local_weak_refs > 0
    /\ nodes[m].st = "freed" /\ nodes[m].proc = 0 /\ AllZero(m)

(* ------------------------- the manager's slot ------------------------- *)
\* the nodes made by BINDER_SET_CONTEXT_MGR that have their owner
ManagerNodes ==
  {n \in NodeIds : nodes[n].st = "alive" /\ nodes[n].ptr = 0 /\ nodes[n].proc # 0}
\* what BINDER_SET_CONTEXT_MGR returns to thread th in this state
SetCtxMgrRet(th, permitted) ==
  binder_ioctl_set_ctx_mgr(binder_get_thread(Cur, th), th, permitted).ret
\* the node indexes of the processes do not change in this step
SameNodes ==
  /\ nodes' = nodes /\ dead_nodes' = dead_nodes
  /\ \A p \in Procs : procs'[p].nodes = procs[p].nodes

\* C18: the context has at most one manager node, the one in its slot;
\* BINDER_SET_CONTEXT_MGR with the slot taken returns EBUSY, makes no node
\* and leaves the slot as it is
C18_OneManager ==
  /\ [](ManagerNodes = IF ctx = 0 THEN {} ELSE {ctx})
  /\ [][\A th \in Threads : \A permitted \in BOOLEAN :
          (ctx # 0 /\ BINDER_SET_CONTEXT_MGR(th, permitted))
            => /\ SetCtxMgrRet(th, permitted) = "EBUSY"
               /\ ctx' = ctx /\ ctx_uid' = ctx_uid /\ SameNodes]_vars

\* process 1 is the manager and a thread of process 2, which the security
\* hook permits and which has the manager's uid, has entered the driver:
\* process 2 has no node
C18_Witness ==
  /\ ctx # 0 /\ nodes[ctx].proc = 1
  /\ threads[Thr(2, 1)].exists /\ ~procs[2].is_dead
  /\ procs[2].nodes = {} /\ ManagerNodes = {ctx}

\* a manager node was made and the slot is empty: the manager was released
ManagerReleased ==
  ctx = 0 /\ \E n \in NodeIds : nodes[n].st # "none" /\ nodes[n].ptr = 0
\* in this step thread th becomes the manager with a node not used before
Installed(th) ==
  /\ SetCtxMgrRet(th, TRUE) = "OK"
  /\ ctx' # 0 /\ nodes[ctx'].st = "none"
  /\ nodes'[ctx'].st = "alive" /\ nodes'[ctx'].proc = TProc(th)
  /\ ctx' \in procs'[TProc(th)].nodes
\* the release of the manager's process empties the slot
ReleaseEmptiesSlot ==
  \A p \in Procs :
    (ReleasedNow(p) /\ ctx # 0 /\ nodes[ctx].proc = p) => ctx' = 0

\* C19 as stated: the release of the manager's process empties the slot, and
\* then BINDER_SET_CONTEXT_MGR by any process that the security hook permits
\* succeeds and installs a fresh node
C19_RoleFreeForAll ==
  [][/\ ReleaseEmptiesSlot
     /\ \A th \in Threads :
          (ManagerReleased /\ BINDER_SET_CONTEXT_MGR(th, TRUE)) => Installed(th)]_vars

\* C19: the release of the manager's process empties the slot, and then
\* BINDER_SET_CONTEXT_MGR by a process that the security hook permits
\* succeeds and installs a fresh node if the caller's euid is the uid
\* recorded for the first manager; with another euid it returns EPERM, makes
\* no node and leaves the slot empty
C19_RoleFreeForSameUid ==
  [][/\ ReleaseEmptiesSlot
     /\ \A th \in Threads :
          (ManagerReleased /\ BINDER_SET_CONTEXT_MGR(th, TRUE))
            => IF Euid(TProc(th)) = ctx_uid THEN Installed(th)
               ELSE /\ SetCtxMgrRet(th, TRUE) = "EPERM"
                    /\ ctx' = 0 /\ ctx_uid' = ctx_uid /\ SameNodes]_vars

\* the first manager was released and a process of the same uid is the
\* manager now; process 3, of another uid, has entered the driver and has
\* no manager node
C19_Witness ==
  /\ ctx # 0 /\ nodes[ctx].proc # 0 /\ ctx_uid = Euid(nodes[ctx].proc)
  /\ \E n \in NodeIds : n # ctx /\ nodes[n].st # "none" /\ nodes[n].ptr = 0
  /\ threads[Thr(3, 1)].exists /\ Euid(3) # ctx_uid

(* ----------------------------- round trip ----------------------------- *)
\* Process 1 is the context manager.  The thread of process 2 sends its
\* binder objects, strong or weak, to handle 0, object 1 in one-way
\* transactions and object 2 in calls; process 1 reads them and sends the handles it was given
\* back, in one-way transactions to these handles and in replies.  Both
\* read and free their buffers.
RoundThreads == {Thr(1, 1), Thr(2, 1)}
CookieOf(ptr) == ptr + 10
RoundOut ==
  {Tr(0, 7, ptr = 1, <<Obj(type, ptr, CookieOf(ptr))>>, "none") :
     type \in {"BINDER", "WEAK_BINDER"}, ptr \in Ptrs}
RoundBack ==
  {Tr(g, 7, TRUE, <<Obj(type, g, 0)>>, "none") :
     type \in {"HANDLE", "WEAK_HANDLE"}, g \in Ptrs}
RoundReply ==
  {Tr(0, 0, FALSE, <<Obj(type, g, 0)>>, "none") :
     type \in {"HANDLE", "WEAK_HANDLE"}, g \in Ptrs}

NextRound ==
  \/ \E th \in RoundThreads : TProc(th) = 1 /\ BINDER_SET_CONTEXT_MGR(th, TRUE)
  \/ \E th \in RoundThreads : TProc(th) = 2 /\ \E tr \in RoundOut : Write_BC_TRANSACTION(th, tr)
  \/ \E th \in RoundThreads : TProc(th) = 1 /\ \E tr \in RoundBack : Write_BC_TRANSACTION(th, tr)
  \/ \E th \in RoundThreads : TProc(th) = 1 /\ \E tr \in RoundReply : Write_BC_REPLY(th, tr)
  \/ \E th \in RoundThreads : \E b \in TxnIds : Write_BC_FREE_BUFFER(th, b)
  \/ \E th \in RoundThreads : ReadBegin(th)
  \/ \E th \in RoundThreads : ReadWake(th, MaxRoom)

SpecRound == Init /\ [][NextRound]_vars

\* this step is a call of binder_transaction that queues its transaction
QueuedNow ==
  Len(sent') = Len(sent) + 1 /\ sent'[Len(sent')].error = "BR_OK"
\* the first object of the buffer of the transaction queued in this step
Delivered == bufs'[sent'[Len(sent')].t].objs[1]
\* the reference of process p with handle desc, 0 if there is none
RefOf(p, desc) ==
  LET m == {r \in procs[p].refs_by_desc : refs[r].desc = desc}
  IN IF m = {} THEN 0 ELSE CHOOSE r \in m : TRUE
\* the references of process p are the same after this step
SameRefs(p) ==
  /\ procs'[p].refs_by_desc = procs[p].refs_by_desc
  /\ procs'[p].refs_by_node = procs[p].refs_by_node
  /\ \A r \in RefIds : (refs[r].proc = p \/ refs'[r].proc = p) => refs'[r] = refs[r]
\* process 2 sends binder object o to process 1: process 1 receives a handle
\* of the same strength, of a reference to a node of process 2 with o's
\* ptr and cookie
SentOut(th, tr) ==
  (/\ TProc(th) = 2 /\ QueuedNow /\ sent'[Len(sent')].from = th
   /\ Write_BC_TRANSACTION(th, tr))
    => LET o == tr.objs[1]
           r == CHOOSE x \in procs'[1].refs_by_desc : refs'[x].desc = Delivered.val
       IN /\ sent'[Len(sent')].to_proc = 1
          /\ Delivered.type = (IF o.type = "BINDER" THEN "HANDLE" ELSE "WEAK_HANDLE")
          /\ Delivered.cookie = 0
          /\ \E x \in procs'[1].refs_by_desc : refs'[x].desc = Delivered.val
          /\ nodes'[refs'[r].node].proc = 2
          /\ nodes'[refs'[r].node].ptr = o.val
          /\ nodes'[refs'[r].node].cookie = o.cookie
\* process 1 sends a handle of a node of process 2 to process 2: process 2
\* receives a binder object of the same strength with the node's ptr and
\* cookie, and its references are as they were
SentBack(th, tr, reply) ==
  (/\ TProc(th) = 1 /\ QueuedNow /\ sent'[Len(sent')].from = th
   /\ sent'[Len(sent')].to_proc = 2 /\ sent'[Len(sent')].reply = reply
   /\ RefOf(1, tr.objs[1].val) # 0
   /\ IF reply THEN Write_BC_REPLY(th, tr) ELSE Write_BC_TRANSACTION(th, tr))
    => LET o == tr.objs[1]
           n == refs[RefOf(1, o.val)].node
       IN nodes[n].proc = 2
          => /\ Delivered.type = (IF o.type = "HANDLE" THEN "BINDER" ELSE "WEAK_BINDER")
             /\ Delivered.val = nodes[n].ptr /\ Delivered.cookie = nodes[n].cookie
             /\ SameRefs(2)
\* a reference keeps its process, node and handle, a node its owner, ptr
\* and cookie
Stable ==
  /\ \A r \in RefIds :
       (refs[r].st = "live" /\ refs'[r].st = "live")
         => /\ refs'[r].proc = refs[r].proc /\ refs'[r].node = refs[r].node
            /\ refs'[r].desc = refs[r].desc
  /\ \A n \in NodeIds :
       (nodes[n].st = "alive" /\ nodes'[n].st = "alive")
         => /\ nodes'[n].ptr = nodes[n].ptr /\ nodes'[n].cookie = nodes[n].cookie
            /\ nodes'[n].proc = nodes[n].proc

\* C20: process A sends a binder object (ptr, cookie) to process B, which
\* receives a handle of a reference to A's node; when B sends this handle
\* in a transaction or a reply to A, A receives a binder object with the
\* same ptr and cookie and no reference of A is made or changed: A, which
\* only sends its own objects, never has a reference
C20_RoundTrip ==
  /\ [][/\ \A th \in Threads : \A tr \in RoundOut : SentOut(th, tr)
        /\ \A th \in Threads : \A tr \in RoundBack : SentBack(th, tr, FALSE)
        /\ \A th \in Threads : \A tr \in RoundReply : SentBack(th, tr, TRUE)
        /\ Stable]_vars
  /\ [](/\ procs[2].refs_by_desc = {} /\ procs[2].refs_by_node = {}
        /\ \A k \in 1..Len(sent) :
             (sent[k].error = "BR_OK" /\ sent[k].to_proc = 2)
               => LET o == bufs[sent[k].t].objs[1]
                  IN /\ o.type \in {"BINDER", "WEAK_BINDER"}
                     /\ o.val \in Ptrs /\ o.cookie = CookieOf(o.val))

\* process 2 has received its binder object 2, for which process 1 has
\* handle 1, back from process 1 twice, weak in a reply and strong in a
\* one-way transaction, and has no reference
C20_Witness ==
  \E k \in 1..Len(sent), j \in 1..Len(sent) :
    /\ sent[k].error = "BR_OK" /\ sent[k].to_proc = 2 /\ sent[k].reply
    /\ sent[j].error = "BR_OK" /\ sent[j].to_proc = 2 /\ ~sent[j].reply
    /\ bufs[sent[k].t].objs = <<Obj("WEAK_BINDER", 2, CookieOf(2))>>
    /\ bufs[sent[j].t].objs = <<Obj("BINDER", 2, CookieOf(2))>>
    /\ procs[2].refs_by_desc = {}
    /\ \E r \in procs[1].refs_by_desc : refs[r].desc = 1 /\ nodes[refs[r].node].ptr = 2

(* ------------------------ the sender's todo list ---------------------- *)
\* the works of list s ahead of work w, which is on s
Ahead(s, w) ==
  LET k == CHOOSE i \in 1..Len(s) : s[i] = w
  IN {s[i] : i \in 1..(k - 1)}
\* the node works: binder_translate_binder queues them on the sender's todo
\* before the send is accepted
NodeWorks == {WNode(n) : n \in NodeIds}
\* transaction u was sent while its sender handled t or a call nested in t
RECURSIVE CausedBy(_, _, _)
CausedBy(u, t, n) ==
  /\ u # 0 /\ n > 0
  /\ txns[u].from_parent = t \/ CausedBy(txns[u].from_parent, t, n - 1)
\* record r is about something that send t of thread th brought about: the
\* reply, the reply-error or a nested transaction
AnswerTo(r, t) ==
  \/ r.cmd = "BR_REPLY" /\ Sent(r.id).in_reply_to = t
  \/ r.cmd \in {"BR_DEAD_REPLY", "BR_FAILED_REPLY"} /\ r.id = t
  \/ r.cmd = "BR_TRANSACTION" /\ CausedBy(r.id, t, MaxTxn)

\* C21: an accepted send puts its TRANSACTION_COMPLETE work on the sender's
\* todo, behind nothing but what was on the list and the node works queued
\* while the objects were translated, and no work gets ahead of it later;
\* the sender reads BR_TRANSACTION_COMPLETE before the reply, the
\* reply-error and any nested transaction the send brings about
C21_CompleteFirst ==
  /\ [][/\ QueuedNow
            => InSeq(WTc(sent'[Len(sent')].t), threads'[sent'[Len(sent')].from].todo)
        /\ \A th \in Threads : \A t \in TxnIds :
             InSeq(WTc(t), threads'[th].todo)
               => Ahead(threads'[th].todo, WTc(t))
                    \subseteq (IF InSeq(WTc(t), threads[th].todo)
                               THEN Ahead(threads[th].todo, WTc(t))
                               ELSE {threads[th].todo[i] : i \in 1..Len(threads[th].todo)}
                                    \cup NodeWorks)]_vars
  /\ [](\A th \in Threads :
          /\ \A t \in TxnIds :
               InSeq(WTc(t), threads[th].todo) => WasSent(t) /\ Sent(t).from = th
          /\ \A i \in 1..Len(out[th]) : \A t \in TxnIds :
               (WasSent(t) /\ Sent(t).from = th /\ AnswerTo(out[th][i], t))
                 => \E j \in 1..(i - 1) :
                      out[th][j].cmd = "BR_TRANSACTION_COMPLETE" /\ out[th][j].id = t)

\* the caller has not read yet: the TRANSACTION_COMPLETE of its call is on
\* its todo ahead of the call that the receiver nested in it
C21_Witness ==
  \E th \in Threads, t \in TxnIds, u \in TxnIds :
    /\ threads[th].todo = <<WTc(t), WTxn(u)>> /\ txns[u].from_parent = t
    /\ Sent(t).from = th /\ Sent(u).to_proc = TProc(th)

(* --------------------------- order of reading ------------------------- *)
\* new is old without some of its works, followed by the works enqueued
\* since (a node work may be taken off and enqueued again)
TailAdded(old, new) ==
  \E k \in 0..Len(new) :
    /\ SubSeq(new, 1, k) = SelectSeq(old, LAMBDA w : InSeq(w, SubSeq(new, 1, k)))
    /\ \A i \in (k + 1)..Len(new) : ~InSeq(new[i], old) \/ new[i].kind = "node"
\* the works that record r of thread th may stand for (the return error of
\* a failed reply is BR_TRANSACTION_COMPLETE)
WorksOf(r, th) ==
  CASE r.cmd \in {"BR_TRANSACTION", "BR_REPLY"} -> {WTxn(r.id)}
    [] r.cmd = "BR_TRANSACTION_COMPLETE" -> {WTc(r.id), WRetErr(th)}
    [] r.cmd \in {"BR_INCREFS", "BR_ACQUIRE", "BR_RELEASE", "BR_DECREFS"} -> {WNode(r.id)}
    [] r.cmd \in {"BR_DEAD_BINDER", "BR_CLEAR_DEATH_NOTIFICATION_DONE"} -> {WDeath(r.id)}
    [] r.cmd = "BR_SPAWN_LOOPER" -> {}
    [] OTHER -> {WRetErr(th), WReplyErr(th)}
\* the records of recs are in the order of the works of taken
InOrderOf(recs, taken, th) ==
  \A i \in 1..Len(recs) : \A j \in i..Len(recs) :
    (WorksOf(recs[i], th) # {} /\ WorksOf(recs[j], th) # {})
      => \E x \in 1..Len(taken) : \E y \in x..Len(taken) :
           taken[x] \in WorksOf(recs[i], th) /\ taken[y] \in WorksOf(recs[j], th)
\* thread th reads in this step: it takes the first a works of its todo and
\* then the first b works of the process's todo, no more than there is
\* room for, and its new records are in that order; it takes from the
\* process's todo only with its own todo empty and only if it began to
\* wait for the work of the process
ReadsInOrder(th, room) ==
  LET old == threads[th].todo
      pold == procs[TProc(th)].todo
      a == Len(old) - Len(threads'[th].todo)
      b == Len(pold) - Len(procs'[TProc(th)].todo)
  IN /\ a >= 0 /\ b >= 0 /\ a + b <= room
     /\ threads'[th].todo = SubSeq(old, a + 1, Len(old))
     /\ procs'[TProc(th)].todo = SubSeq(pold, b + 1, Len(pold))
     /\ b > 0 => (rd[th].wait_for_proc_work /\ a = Len(old))
     /\ InOrderOf(SubSeq(out'[th], Len(out[th]) + 1, Len(out'[th])),
                  SubSeq(old, 1, a) \o SubSeq(pold, 1, b), th)
     /\ \A i \in (Len(out[th]) + 1)..Len(out'[th]) :
          \/ out'[th][i].cmd = "BR_SPAWN_LOOPER"
          \/ \E x \in 1..(a + b) :
               (SubSeq(old, 1, a) \o SubSeq(pold, 1, b))[x] \in WorksOf(out'[th][i], th)

\* C22: a todo list of a thread or of a process changes by works leaving it
\* and works joining it at the tail; a reading thread takes works from the
\* head, of its own todo first and of the process's todo only when its own
\* is empty and it began its wait with an empty stack and an empty todo,
\* and reads them in this order
C22_ReadFifo ==
  [][/\ \A th \in Threads : TailAdded(threads[th].todo, threads'[th].todo)
     /\ \A p \in Procs : TailAdded(procs[p].todo, procs'[p].todo)
     /\ \A th \in Threads : \A room \in Rooms :
          (rd[th].pc = "wait" /\ ReadWake(th, room)) => ReadsInOrder(th, room)
     /\ \A th \in Threads :
          (rd[th].pc = "user" /\ rd'[th].pc = "wait" /\ rd'[th].wait_for_proc_work)
            => threads[th].transaction_stack = 0 /\ threads[th].todo = <<>>]_vars

\* two calls of one thread went to the todo of the manager's process; the
\* caller has read their BR_TRANSACTION_COMPLETE in the order of the calls,
\* and the threads of the manager have read the calls
C22_Witness ==
  \E th \in Threads, t1 \in TxnIds, t2 \in TxnIds :
    /\ WasSent(t1) /\ WasSent(t2) /\ SentAt(t1) < SentAt(t2)
    /\ Sent(t1).from = th /\ Sent(t2).from = th
    /\ Sent(t1).list = ProcTodo(1) /\ Sent(t2).list = ProcTodo(1)
    /\ \E i \in 1..Len(out[th]) : \E j \in 1..Len(out[th]) :
         /\ i < j
         /\ out[th][i] = Rec("BR_TRANSACTION_COMPLETE", 0, 0, 0, t1)
         /\ out[th][j] = Rec("BR_TRANSACTION_COMPLETE", 0, 0, 0, t2)
    /\ ReadBy("BR_TRANSACTION", t1) /\ ReadBy("BR_TRANSACTION", t2)

\* ---------------------------------------------------------------------
\* a reply without a call to answer
\* ---------------------------------------------------------------------

\* the thread has no call to answer: its stack is empty or the top of its
\* stack is not a transaction delivered to it
NothingToAnswer(th) ==
  \/ threads[th].transaction_stack = 0
  \/ txns[threads[th].transaction_stack].to_thread # th
\* the step is a BC_REPLY of th that binder_transaction handled
ReplyHandled(th) ==
  /\ Len(sent') = Len(sent) + 1
  /\ sent'[Len(sent')].reply
  /\ sent'[Len(sent')].from = th
\* C23: a BC_REPLY handled for a thread whose transaction stack is empty,
\* or whose stack top is not a transaction delivered to that thread, fails
\* with BR_FAILED_REPLY: the only work queued is the replier's error
\* record, at the tail of the replier's own todo list; the stack of every
\* thread, the todo list of every other thread and of every process, the
\* asynchronous queues and the buffers are unchanged, and no transaction
\* is created for the reply.
C23_BadReplyRejected ==
  [][\A th \in Threads :
       ReplyHandled(th) /\ NothingToAnswer(th) =>
         /\ sent'[Len(sent')].error = "BR_FAILED_REPLY"
         /\ sent'[Len(sent')].in_reply_to = 0
         /\ threads'[th].return_error = "BR_FAILED_REPLY"
         /\ threads'[th].todo = Append(threads[th].todo, WRetErr(th))
         /\ \A o \in Threads :
              /\ threads'[o].transaction_stack = threads[o].transaction_stack
              /\ o # th => threads'[o].todo = threads[o].todo
         /\ \A p \in Procs : procs'[p].todo = procs[p].todo
         /\ nodes' = nodes /\ bufs' = bufs /\ tcs' = tcs
         /\ \A t \in TxnIds :
              \/ txns'[t] = txns[t]
              \/ txns[t].st = "none" /\ txns'[t].st = "unalloc"]_vars

\* both cases have happened: a reply of a thread with an empty stack and a
\* reply of a thread whose stack top is a call it sent and still waits
\* for, each answered with BR_FAILED_REPLY and the second with the call
\* still on top of the replier's stack
C23_Witness ==
  \E i, j \in 1..Len(sent) :
    /\ sent[i].reply /\ sent[i].error = "BR_FAILED_REPLY"
    /\ sent[j].reply /\ sent[j].error = "BR_FAILED_REPLY"
    /\ i < j
    /\ LET th == sent[j].from
           top == threads[th].transaction_stack
       IN /\ top # 0
          /\ txns[top].from = th
          /\ txns[top].to_thread # th
          /\ Len(threads[th].todo) > 0
          /\ threads[th].todo[Len(threads[th].todo)] = WRetErr(th)
    /\ \E k \in 1..Len(out[sent[i].from]) :
         out[sent[i].from][k].cmd = "BR_FAILED_REPLY"

\* ---------------------------------------------------------------------
\* fixups in order
\* ---------------------------------------------------------------------
\* Process 1 is the context manager.  A thread of process 2 sends one
\* one-way BC_TRANSACTION_SG to handle 0 whose payload is made of buffer
\* objects and fd arrays; a thread of process 1 reads it and frees its
\* buffer.
MaxObjs == 4
MaxFixupSends == 1
FixupThreads == {Thr(1, 1), Thr(2, 1)}
RootObj == BufObj(24, FALSE, 0, 0)
FixupObjs ==
  {RootObj}
  \cup {BufObj(24, TRUE, p, o) : p \in {0, 1}, o \in {0, 8, 16}}
  \cup {FdaObj(n, p, o, "OK") : n \in {1, 2}, p \in {0, 1}, o \in {0, 8}}
  \cup {FdaObj(1, 0, 16, "EPERM")}
FixupPayloads ==
  {<<a>> : a \in FixupObjs}
  \cup {<<RootObj>> \o s : s \in UNION {[1..n -> FixupObjs] : n \in 1..(MaxObjs - 1)}}
FixupSizes == {96, 40}

NextFixup ==
  \/ \E th \in FixupThreads : TProc(th) = 1 /\ BINDER_SET_CONTEXT_MGR(th, TRUE)
  \/ \E th \in FixupThreads :
       /\ TProc(th) = 2
       /\ Len(sent) < MaxFixupSends
       /\ \E objs \in FixupPayloads, size \in FixupSizes :
            Write_BC_TRANSACTION_SG(th, Tr(0, 7, TRUE, objs, "none"), size)
  \/ \E th \in FixupThreads : TProc(th) = 1 /\ \E b \in TxnIds : Write_BC_FREE_BUFFER(th, b)
  \/ \E th \in FixupThreads : ReadBegin(th)
  \/ \E th \in FixupThreads : ReadWake(th, MaxRoom)

SpecFixup == Init /\ [][NextFixup]_vars

\* the payload's object at position i patches its parent: a buffer
\* object with a parent, or an fd array
IsFixup(objs, i) ==
  \/ objs[i].type = "PTR" /\ objs[i].has_parent
  \/ objs[i].type = "FDA"
\* the position of the parent the fixup names, 0 when it names no buffer
\* object before it
ParentOf(objs, i) ==
  IF objs[i].parent + 1 < i /\ objs[objs[i].parent + 1].type = "PTR"
  THEN objs[i].parent + 1 ELSE 0
\* where the fixup of object i ends in its parent
FixupEnd(objs, i) ==
  IF objs[i].type = "FDA" THEN objs[i].parent_offset + FdSize * objs[i].num_fds
  ELSE objs[i].parent_offset + PtrSize
\* buffer object x and the buffer objects it is nested in
RECURSIVE Ancestors(_, _)
Ancestors(objs, x) ==
  IF x = 0 THEN {}
  ELSE {x} \cup (IF objs[x].has_parent THEN Ancestors(objs, ParentOf(objs, x)) ELSE {})
\* the buffer object fixed up last among the objects 1..i: a buffer
\* object itself, the parent of an fd array
RECURSIVE LastFixedUp(_, _)
LastFixedUp(objs, i) ==
  IF i = 0 THEN 0
  ELSE IF objs[i].type = "PTR" THEN i
  ELSE IF objs[i].type = "FDA" THEN ParentOf(objs, i)
  ELSE LastFixedUp(objs, i - 1)
\* the ends of the fixups that the objects 1..i made inside buffer object p
EndsIn(objs, i, p) ==
  {FixupEnd(objs, j) : j \in {k \in 1..i : IsFixup(objs, k) /\ ParentOf(objs, k) = p}}
\* object i is a fixup out of order: its parent is not the buffer object
\* fixed up last nor one that object is nested in, or its offset lies
\* before the end of an earlier fixup inside the same parent
OutOfOrder(objs, i) ==
  /\ IsFixup(objs, i)
  /\ \/ ParentOf(objs, i) \notin Ancestors(objs, LastFixedUp(objs, i - 1))
     \/ \E e \in EndsIn(objs, i - 1, ParentOf(objs, i)) : objs[i].parent_offset < e
\* this step is a transaction of th that got as far as its buffer
FixupSent(th) ==
  /\ Len(sent') = Len(sent) + 1
  /\ sent'[Len(sent')].from = th
  /\ ~sent'[Len(sent')].reply
  /\ sent'[Len(sent')].to_proc # 0
  /\ bufs[sent'[Len(sent')].t].st = "none"
  /\ bufs'[sent'[Len(sent')].t].st # "none"
\* the payload of the transaction of this step
PayloadSent == bufs'[sent'[Len(sent')].t].objs

HandedOut(b) ==
  \E o \in Threads :
    /\ TProc(o) = bufs[b].proc
    /\ \E i \in 1..Len(out[o]) :
         out[o][i].cmd \in {"BR_TRANSACTION", "BR_REPLY"} /\ out[o][i].id = b
\* BC_FREE_BUFFER of th with this pointer has a buffer to free
Freeable(th, b) ==
  /\ bufs[b].st = "alloc"
  /\ bufs[b].proc = TProc(th)
  /\ HandedOut(b)
\* the step leaves buffers, counts, nodes, transactions and queues alone
NothingFreed ==
  /\ bufs' = bufs /\ refs' = refs /\ nodes' = nodes /\ txns' = txns /\ tcs' = tcs
  /\ deaths' = deaths /\ dead_nodes' = dead_nodes
  /\ \A p \in Procs : procs'[p].todo = procs[p].todo
  /\ \A o \in Threads : threads'[o].todo = threads[o].todo
                          /\ threads'[o].transaction_stack = threads[o].transaction_stack

\* C25: a buffer is freed for user space only by a BC_FREE_BUFFER of a
\* thread of the buffer's process, and only when the buffer is allocated
\* and a thread of that process has read the BR_TRANSACTION or BR_REPLY
\* that carries it, which is when allow_user_free is set; a BC_FREE_BUFFER
\* whose pointer names no allocated buffer of the process, or a buffer not
\* yet read, changes no buffer, reference, node, transaction or queue.
C25_FreeReturnedOnly ==
  /\ [](\A b \in TxnIds : bufs[b].st = "alloc" => (bufs[b].allow_user_free <=> HandedOut(b)))
  /\ [][\A b \in TxnIds :
          bufs'[b].st = "freed" /\ bufs[b].st # "freed" /\ bufs'[b].freed_by = "user" =>
            /\ bufs[b].st = "alloc" /\ HandedOut(b)
            /\ \E th \in Threads : TProc(th) = bufs[b].proc /\ Write_BC_FREE_BUFFER(th, b)]_vars
  /\ [][\A th \in RoundThreads : \A b \in TxnIds :
          ~Freeable(th, b) /\ sent' = sent /\ out' = out /\ rd' = rd
          /\ Write_BC_FREE_BUFFER(th, b) => NothingFreed]_vars

\* all three cases have happened: a thread freed a buffer it had read, a
\* free of a buffer still queued was skipped (the buffer is allocated and
\* unread while its transaction, sent second, waits), and the freed
\* buffer held an object whose reference the free released
C25_Witness ==
  \E b, c \in TxnIds :
    /\ bufs[b].st = "freed" /\ bufs[b].freed_by = "user"
    /\ Len(bufs[b].objs) = 1
    /\ bufs[c].st = "alloc" /\ ~bufs[c].allow_user_free /\ ~HandedOut(c)
    /\ \E o \in Threads : \E i \in 1..Len(out[o]) :
         out[o][i].cmd = "BR_TRANSACTION" /\ out[o][i].id = b

\* ---------------------------------------------------------------------
\* nicety inherited from the caller
\* ---------------------------------------------------------------------
\* Process 1 or process 3 becomes the context manager (its node has
\* min_priority 0); a thread of process 2 calls handle 0, one-way or not,
\* and the manager's thread reads and replies.  Threads change their
\* nicety with setpriority() as far as RLIMIT_NICE lets them (process 3
\* cannot go below 0), until they have read their first record.
NiceValues == {-2, 0, 3}
MaxNiceSends == 1
NiceThreads == {Thr(1, 1), Thr(2, 1), Thr(3, 1)}
NiceTrs == {Tr(0, 7, o, <<>>, "none") : o \in BOOLEAN}

\* setpriority(PRIO_PROCESS, th, n) by the user
setpriority(th, n) ==
  /\ bug = ""
  /\ can_nice(th, n)
  /\ nice[th] # n
  /\ out[th] = <<>>
  /\ nice' = [nice EXCEPT ![th] = n]
  /\ UNCHANGED <<procs, threads, nodes, refs, deaths, txns, bufs, tcs, ctx, ctx_uid,
                 dead_nodes, rd, out, sent, bug, locks>>

NextNice ==
  \/ \E th \in NiceThreads : TProc(th) # 2 /\ BINDER_SET_CONTEXT_MGR(th, TRUE)
  \/ \E th \in NiceThreads : \E n \in NiceValues : setpriority(th, n)
  \/ \E th \in NiceThreads :
       /\ TProc(th) = 2
       /\ Len(sent) < MaxNiceSends
       /\ \E tr \in NiceTrs : Write_BC_TRANSACTION(th, tr)
  \/ \E th \in NiceThreads : TProc(th) # 2 /\ Write_BC_REPLY(th, Tr(0, 0, FALSE, <<>>, "none"))
  \/ \E th \in NiceThreads : ReadBegin(th)
  \/ \E th \in NiceThreads : ReadWake(th, MaxRoom)

SpecNice == Init /\ [][NextNice]_vars

\* this step hands transaction t, sent to a node, to thread th
DeliveredNow(th, t) ==
  /\ Len(out'[th]) > Len(out[th])
  /\ out'[th][Len(out'[th])] .cmd = "BR_TRANSACTION"
  /\ out'[th][Len(out'[th])].id = t
\* this step is a BC_REPLY of th to transaction t, the top of its stack
AnsweredNow(th, t) ==
  /\ Len(sent') = Len(sent) + 1
  /\ sent'[Len(sent')].reply
  /\ sent'[Len(sent')].from = th
  /\ threads[th].transaction_stack = t
  /\ t # 0
  /\ txns[t].to_thread = th
\* the nicety the thread has after asking for n: n if RLIMIT_NICE allows
\* it, else the least nicety it allows
Granted(th, n) ==
  IF 20 - n <= RlimitNice(TProc(th)) THEN n ELSE 20 - RlimitNice(TProc(th))
\* the nicety of the node the transaction was sent to
MinPriorityOf(t) == nodes[Sent(t).node].min_priority

\* C26 as stated: on delivery the receiver's nicety becomes the sender's
\* p when the call is not one-way and p < m, and m otherwise; its nicety
\* before delivery is saved on the transaction, and is its nicety after it
\* sends the reply
C26_NiceInherited ==
  [][\A th \in NiceThreads : \A t \in TxnIds :
       /\ DeliveredNow(th, t) =>
            /\ txns'[t].saved_priority = nice[th] \/ txns'[t].st # "live"
            /\ nice'[th] = IF ~txns[t].one_way /\ txns[t].priority < MinPriorityOf(t)
                           THEN txns[t].priority ELSE MinPriorityOf(t)
       /\ AnsweredNow(th, t) => nice'[th] = txns[t].saved_priority]_vars

\* C26 with the permission of binder_set_nice and the one-way case: the
\* nicety asked for is the sender's p when the call is not one-way and
\* p < m, and m when the call is not one-way and p >= m or when it is
\* one-way and the receiver's nicety is above m; the receiver gets it if
\* RLIMIT_NICE allows it and else the least nicety RLIMIT_NICE allows; a
\* one-way call leaves a receiver's nicety that is at most m as it is.
\* The transaction's priority is the sender's nicety when it was sent.
\* The receiver's nicety before delivery is saved on a call that is not
\* one-way, and is what the receiver asks for when it sends the reply.
C26_NiceInheritedIfAllowed ==
  [][/\ \A th \in NiceThreads : \A t \in TxnIds :
          /\ DeliveredNow(th, t) =>
               /\ ~txns[t].one_way => txns'[t].saved_priority = nice[th]
               /\ nice'[th] =
                    IF ~txns[t].one_way /\ txns[t].priority < MinPriorityOf(t)
                    THEN Granted(th, txns[t].priority)
                    ELSE IF ~txns[t].one_way \/ nice[th] > MinPriorityOf(t)
                    THEN Granted(th, MinPriorityOf(t))
                    ELSE nice[th]
          /\ AnsweredNow(th, t) => nice'[th] = Granted(th, txns[t].saved_priority)
     /\ Len(sent') = Len(sent) + 1 /\ sent'[Len(sent')].error = "BR_OK"
        /\ ~sent'[Len(sent')].reply =>
          txns'[sent'[Len(sent')].t].priority = nice[sent'[Len(sent')].from]]_vars

\* a call sent at nicety -2 was read by a thread of process 3 at nicety 3,
\* which may not go below 0: it has nicety 0 now, with 3 saved on the call
\* on top of its stack
C26_Witness ==
  \E t \in TxnIds :
    /\ txns[t].st = "live" /\ txns[t].need_reply
    /\ txns[t].priority = -2
    /\ txns[t].to_thread = Thr(3, 1)
    /\ txns[t].saved_priority = 3
    /\ nice[Thr(3, 1)] = 0
    /\ threads[Thr(3, 1)].transaction_stack = t

\* ---------------------------------------------------------------------
\* asking user space for another thread
\* ---------------------------------------------------------------------
\* Process 1 is the context manager; its threads set max_threads, register
\* or enter as loopers, read and free the buffers they have read; a thread
\* of process 2 sends one-way transactions to handle 0.
MaxThreadsSet == 2
MaxLooperSends == 2
LooperThreads == {Thr(1, 1), Thr(1, 2), Thr(2, 1)}

NextLooper ==
  \/ \E th \in LooperThreads : TProc(th) = 1 /\ BINDER_SET_CONTEXT_MGR(th, TRUE)
  \/ \E th \in LooperThreads : \E n \in 0..MaxThreadsSet :
       TProc(th) = 1 /\ procs[1].max_threads # n /\ BINDER_SET_MAX_THREADS(th, n)
  \/ \E th \in LooperThreads :
       TProc(th) = 1 /\ "REGISTERED" \notin threads[th].looper /\ Write_BC_REGISTER_LOOPER(th)
  \/ \E th \in LooperThreads :
       TProc(th) = 1 /\ "ENTERED" \notin threads[th].looper /\ Write_BC_ENTER_LOOPER(th)
  \/ \E th \in LooperThreads :
       /\ TProc(th) = 2
       /\ Len(sent) < MaxLooperSends
       /\ Write_BC_TRANSACTION(th, Tr(0, 7, TRUE, <<>>, "none"))
  \/ \E th \in LooperThreads : TProc(th) = 1 /\ \E b \in TxnIds : Write_BC_FREE_BUFFER(th, b)
  \/ \E th \in LooperThreads : TProc(th) = 1 /\ ReadBegin(th)
  \/ \E th \in LooperThreads : ReadWake(th, MaxRoom)
  \/ \E th \in LooperThreads : ReadAbort(th)

SpecLooper == Init /\ [][NextLooper]_vars

\* how many BR_SPAWN_LOOPER the thread has read
Spawns(o) == Cardinality({i \in 1..Len(o) : o[i].cmd = "BR_SPAWN_LOOPER"})
\* this step is the return of a read of th that ran to its end
ReadEnds(th) ==
  /\ rd[th].pc = "wait"
  /\ rd'[th].pc = "user"
  /\ ReadWake(th, MaxRoom)
\* the threads of the process that wait for process work once the reader
\* has left its wait
ReadyLeft(th) ==
  procs[TProc(th)].ready_threads - (IF rd[th].wait_for_proc_work THEN 1 ELSE 0)
\* the thread is a looper of a process that may start more
MaySpawn(th) ==
  /\ procs[TProc(th)].requested_threads_started < procs[TProc(th)].max_threads
  /\ threads[th].looper \cap {"REGISTERED", "ENTERED"} # {}
\* the step emits one BR_SPAWN_LOOPER to th and counts the request
SpawnAsked(th) ==
  /\ Spawns(out'[th]) = Spawns(out[th]) + 1
  /\ procs'[TProc(th)].requested_threads = procs[TProc(th)].requested_threads + 1
\* the step emits no BR_SPAWN_LOOPER and counts no request
NoSpawnAsked(th) ==
  /\ Spawns(out'[th]) = Spawns(out[th])
  /\ procs'[TProc(th)].requested_threads = procs[TProc(th)].requested_threads

\* C27 as stated: a read that ends with no thread of the process ready,
\* fewer started loopers than max_threads and a reader that is a looper
\* emits BR_SPAWN_LOOPER and increments requested_threads; otherwise it
\* emits none
C27_SpawnWhenNoneReady ==
  [][\A th \in LooperThreads :
       ReadEnds(th) =>
         IF ReadyLeft(th) = 0 /\ MaySpawn(th) THEN SpawnAsked(th) ELSE NoSpawnAsked(th)]_vars

\* C27 with the requests counted: a read that ends with no thread of the
\* process ready and no thread asked for and not yet registered
\* (requested_threads + ready_threads == 0), fewer started loopers than
\* max_threads and a reader that is a looper emits BR_SPAWN_LOOPER and
\* increments requested_threads; otherwise it emits none and leaves
\* requested_threads alone.  A read that is interrupted emits none.
C27_SpawnWhenNoneReadyNorRequested ==
  [][\A th \in LooperThreads :
       /\ ReadEnds(th) =>
            IF procs[TProc(th)].requested_threads + ReadyLeft(th) = 0 /\ MaySpawn(th)
            THEN SpawnAsked(th) ELSE NoSpawnAsked(th)
       /\ rd[th].pc = "wait" /\ rd'[th].pc = "user" /\ ReadAbort(th) => NoSpawnAsked(th)]_vars

\* a looper was asked for a thread once, and has since ended a second
\* read, of a transaction, without being asked again: no thread is ready,
\* fewer loopers have started than max_threads allows, and the thread asked
\* for has not registered
C27_Witness ==
  \E th \in LooperThreads :
    /\ Spawns(out[th]) = 1
    /\ out[th][1].cmd = "BR_SPAWN_LOOPER"
    /\ out[th][Len(out[th])].cmd = "BR_TRANSACTION"
    /\ rd[th].pc = "user"
    /\ procs[1].requested_threads = 1
    /\ procs[1].ready_threads = 0
    /\ procs[1].requested_threads_started < procs[1].max_threads
    /\ MaySpawn(th)

\* ---------------------------------------------------------------------
\* a payload undone
\* ---------------------------------------------------------------------
\* Process 1 is the context manager.  Processes 2 and 3 each send it a
\* one-way transaction that carries a binder object of their own, which
\* gives process 1 handles 1 and 2; process 1 sends one-way transactions
\* to these handles whose payloads carry handles, the last of them often
\* one it does not have.  Processes 2 and 3 read, and close their files.
UndoThreads == {Thr(1, 1), Thr(2, 1), Thr(3, 1)}
UndoAnnounce == {Tr(0, 7, TRUE, <<Obj(ty, 1, CookieOf(1))>>, "none") : ty \in {"BINDER", "WEAK_BINDER"}}
BadHandle == Obj("HANDLE", 3, 0)
UndoObjs == {Obj(ty, d, 0) : ty \in {"HANDLE", "WEAK_HANDLE"}, d \in {1, 2}}
UndoPayloads ==
  {<<a>> : a \in UndoObjs \cup {BadHandle}}
  \cup {<<a, b>> : a \in UndoObjs, b \in UndoObjs \cup {BadHandle}}
UndoTrs == {Tr(h, 7, TRUE, objs, "none") : h \in {1, 2}, objs \in UndoPayloads}

NextUndo ==
  \/ \E th \in UndoThreads : TProc(th) = 1 /\ BINDER_SET_CONTEXT_MGR(th, TRUE)
  \/ \E th \in UndoThreads :
       /\ TProc(th) # 1
       /\ procs[TProc(th)].nodes = {}
       /\ \E tr \in UndoAnnounce : Write_BC_TRANSACTION(th, tr)
  \/ \E th \in UndoThreads : TProc(th) = 1 /\ \E tr \in UndoTrs : Write_BC_TRANSACTION(th, tr)
  \/ \E th \in UndoThreads : TProc(th) # 1 /\ ReadBegin(th)
  \/ \E th \in UndoThreads : ReadWake(th, MaxRoom)
  \/ \E p \in {2, 3} : binder_release(p)

SpecUndo == Init /\ [][NextUndo]_vars

\* this step is a transaction that failed while its objects were
\* translated: its buffer was allocated, and has been freed by the driver
FailedInTranslation ==
  /\ Len(sent') = Len(sent) + 1
  /\ sent'[Len(sent')].error = "BR_FAILED_REPLY"
  /\ bufs[sent'[Len(sent')].t].st = "none"
  /\ bufs'[sent'[Len(sent')].t].st = "freed"
\* the process the transaction of this step was sent to
TargetNow == sent'[Len(sent')].to_proc

\* C28: when a transaction fails while its objects are translated, the
\* references of the target process have the strong and weak counts they
\* had before, the target has no reference that it did not have before,
\* every node has the local strong and weak counts it had before, and the
\* buffer is freed.
C28_TranslationUndone ==
  [][FailedInTranslation =>
       /\ \A r \in RefIds :
            /\ refs[r].st = "live" /\ refs[r].proc = TargetNow =>
                 /\ refs'[r].st = "live"
                 /\ refs'[r].strong = refs[r].strong
                 /\ refs'[r].weak = refs[r].weak
            /\ refs[r].st # "live" =>
                 /\ r \notin procs'[TargetNow].refs_by_desc
                 /\ r \notin procs'[TargetNow].refs_by_node
       /\ \A n \in NodeIds :
            nodes[n].st = "alive" =>
              /\ nodes'[n].local_strong_refs = nodes[n].local_strong_refs
              /\ nodes'[n].local_weak_refs = nodes[n].local_weak_refs
       /\ bufs'[sent'[Len(sent')].t].freed_by = "driver"]_vars

\* ---------------------------------------------------------------------
\* the target node of a send that fails
\* ---------------------------------------------------------------------
\* Process 1 is the context manager.  A thread of process 2 sends its
\* binder object to handle 0, which gives process 1 handle 1; the thread of
\* process 2 calls handle 0 and the thread of process 1 handle 1, one-way
\* or not, with an empty payload or one that names a handle the sender
\* does not have, and any of the allocations, the copy or the security
\* hook may fail.  The threads read.  Process 2 may close its file.
FailThreads == {Thr(1, 1), Thr(2, 1)}
FailKinds == {"none", "security", "alloc_t", "alloc_tcomplete", "alloc_buf",
              "alloc_buf_esrch", "copy"}
FailAnnounce == Tr(0, 7, TRUE, <<Obj("BINDER", 1, CookieOf(1))>>, "none")
FailTrs(h) ==
  {Tr(h, 7, o, objs, f) : o \in BOOLEAN, objs \in {<<>>, <<BadHandle>>}, f \in FailKinds}

NextFail ==
  \/ \E th \in FailThreads : TProc(th) = 1 /\ BINDER_SET_CONTEXT_MGR(th, TRUE)
  \/ \E th \in FailThreads :
       TProc(th) = 2 /\ procs[2].nodes = {} /\ Write_BC_TRANSACTION(th, FailAnnounce)
  \/ \E th \in FailThreads :
       \E tr \in FailTrs(2 - TProc(th)) : Write_BC_TRANSACTION(th, tr)
  \/ \E th \in FailThreads : ReadBegin(th)
  \/ \E th \in FailThreads : ReadWake(th, MaxRoom)
  \/ binder_release(2)

SpecFail == Init /\ [][NextFail]_vars

\* this step is a transaction, not a reply, that found its target node
\* and failed
FailedSend ==
  /\ Len(sent') = Len(sent) + 1
  /\ ~sent'[Len(sent')].reply
  /\ sent'[Len(sent')].error # "BR_OK"
  /\ sent'[Len(sent')].node # 0
\* the node the transaction of this step was sent to
NodeNow == sent'[Len(sent')].node

\* C29: a transaction, not a reply, that fails after its target node was
\* found leaves the node's local_strong_refs as it was before the send,
\* whichever step fails: the count taken at admission is given back once.
\* The node is not freed by the send, and its other counts are unchanged
\* too.
C29_AdmissionCountReleased ==
  [][FailedSend =>
       /\ nodes[NodeNow].st = "alive"
       /\ nodes'[NodeNow].st = "alive"
       /\ nodes'[NodeNow].local_strong_refs = nodes[NodeNow].local_strong_refs
       /\ nodes'[NodeNow].local_weak_refs = nodes[NodeNow].local_weak_refs
       /\ nodes'[NodeNow].internal_strong_refs = nodes[NodeNow].internal_strong_refs
       /\ nodes'[NodeNow].tmp_refs = nodes[NodeNow].tmp_refs]_vars

\* two sends to one node have failed: one in the translation of its
\* payload, where the driver freed the buffer, and the other because the
\* process of the node was gone (BR_DEAD_REPLY, no target process found)
C29_Witness ==
  \E j, k \in 1..Len(sent) :
    /\ sent[j].node # 0 /\ sent[j].node = sent[k].node
    /\ ~sent[j].reply /\ ~sent[k].reply
    /\ sent[j].error = "BR_FAILED_REPLY" /\ bufs[sent[j].t].st = "freed"
    /\ bufs[sent[j].t].objs = <<BadHandle>>
    /\ bufs[sent[j].t].freed_by = "driver"
    /\ sent[k].error = "BR_DEAD_REPLY" /\ sent[k].to_proc = 0
    /\ nodes[sent[k].node].st = "alive"

\* ---------------------------------------------------------------------
\* the first strong reference to a node
\* ---------------------------------------------------------------------
\* Process 1 is the context manager.  The thread of process 2 sends its
\* binder object to handle 0, as a strong or a weak object, which gives
\* process 1 handle 1, and takes and drops strong references on handle 0.
\* Process 1 reads, frees the buffers and takes and drops strong and weak
\* references on handle 1; process 2 reads what becomes of its node and
\* acknowledges.  Process 2 may close its file.
MaxStrongSends == 1
StrongThreads == {Thr(1, 1), Thr(2, 1)}
StrongAnnounce ==
  {Tr(0, 7, TRUE, <<Obj(ty, 1, CookieOf(1))>>, "none") : ty \in {"BINDER", "WEAK_BINDER"}}

NextStrong ==
  \/ \E th \in StrongThreads : TProc(th) = 1 /\ BINDER_SET_CONTEXT_MGR(th, TRUE)
  \/ \E th \in StrongThreads :
       /\ TProc(th) = 2 /\ Len(sent) < MaxStrongSends
       /\ \E tr \in StrongAnnounce : Write_BC_TRANSACTION(th, tr)
  \/ \E th \in StrongThreads : \E inc \in BOOLEAN, strong \in BOOLEAN :
       /\ TProc(th) = 1
       /\ \A r \in RefIds : refs[r].strong < MaxCount /\ refs[r].weak < MaxCount
       /\ Write_BC_refs(th, 1, inc, strong)
  \/ \E th \in StrongThreads : \E inc \in BOOLEAN :
       /\ TProc(th) = 2
       /\ \A r \in RefIds : refs[r].strong < MaxCount
       /\ Write_BC_refs(th, 0, inc, TRUE)
  \/ \E th \in StrongThreads : \E acquire \in BOOLEAN :
       TProc(th) = 2 /\ Write_BC_refs_done(th, 1, CookieOf(1), acquire)
  \/ \E th \in StrongThreads : \E b \in TxnIds : TProc(th) = 1 /\ Write_BC_FREE_BUFFER(th, b)
  \/ \E th \in StrongThreads : ReadBegin(th)
  \/ \E th \in StrongThreads : ReadWake(th, MaxRoom)
  \/ binder_release(2)

SpecStrong == Init /\ [][NextStrong]_vars

\* this step is a transaction sent by a thread of the owner of node n that
\* carried a strong binder object for n: binder_translate_binder took the
\* reference with the sender's todo list as the place for the node's work
ListSupplied(n) ==
  /\ Len(sent') = Len(sent) + 1
  /\ TProc(sent'[Len(sent')].from) = nodes'[n].proc
  /\ \E i \in 1..Len(PayloadSent) :
       /\ PayloadSent[i].type = "HANDLE"
       /\ \E r \in RefIds :
            /\ refs'[r].st = "live" /\ refs'[r].node = n
            /\ refs'[r].proc = sent'[Len(sent')].to_proc
            /\ refs'[r].desc = PayloadSent[i].val
\* n is the node of the context manager, and its owner holds it strongly
ManagerHeld(n) == n = ctx /\ nodes[n].proc # 0 /\ nodes[n].has_strong_ref
\* reference r has no strong count, and nor has any other reference to its
\* node, which is not the manager's
AtZero(r) ==
  /\ refs[r].st = "live"
  /\ refs[r].strong = 0
  /\ nodes[refs[r].node].internal_strong_refs = 0
  /\ ~ManagerHeld(refs[r].node)

\* C30: internal_strong_refs of a node goes from 0 to 1 only in a
\* transaction of its owner that carries the node as a strong binder
\* object (the sender's todo list is supplied for the node's work), or
\* when the node is the context manager's with has_strong_ref set.  Any
\* other strong internal increment at count 0 fails with EINVAL, in
\* binder_inc_node_nilocked and so in binder_inc_ref, and changes nothing:
\* no counter of the node nor of the reference.  (No command gets as far
\* as that increment: binder_get_ref refuses a strong use of a reference
\* without a strong count first, so the second half is stated of the two
\* functions in every state the driver reaches.)
C30_StrongFromZero ==
  /\ [](\A r \in RefIds :
          AtZero(r) =>
            /\ binder_inc_node_nilocked(Cur, refs[r].node, TRUE, TRUE, NoList)
                 = Ret(Cur, "EINVAL")
            /\ binder_inc_ref(Cur, r, TRUE, NoList) = Ret(Cur, "EINVAL"))
  /\ [][\A n \in NodeIds :
          nodes[n].internal_strong_refs = 0 /\ nodes'[n].internal_strong_refs > 0
            => ListSupplied(n) \/ ManagerHeld(n)]_vars

\* process 2 took the first strong reference to the manager's node with
\* BC_ACQUIRE on handle 0, while process 1 holds a weak reference only to
\* the node of process 2, whose strong count is 0 and which process 2 has
\* been told to release: a strong increment on handle 1 would find the
\* count at 0
C30_Witness ==
  \E r0 \in RefIds, r1 \in RefIds, th \in StrongThreads :
    /\ ctx # 0 /\ refs[r0].st = "live" /\ refs[r0].node = ctx /\ refs[r0].proc = 2
    /\ refs[r0].strong = 1 /\ nodes[ctx].internal_strong_refs = 1
    /\ TProc(th) = 1 /\ threads[th].exists /\ refs[r1].proc = 1 /\ AtZero(r1)
    /\ refs[r1].weak > 0 /\ refs[r1].desc = 1
    /\ nodes[refs[r1].node].proc = 2
    /\ ~nodes[refs[r1].node].has_strong_ref
    /\ \E i \in 1..Len(out[Thr(2, 1)]) : out[Thr(2, 1)][i].cmd = "BR_RELEASE"

\* ---------------------------------------------------------------------
\* the strong references of other processes, counted
\* ---------------------------------------------------------------------
\* the references to node n that hold a strong count
StrongRefs(n) == {r \in nodes[n].refs : refs[r].strong > 0}

\* C31: internal_strong_refs of every node is the number of references in
\* the node's refs set whose strong count is greater than zero; so a node
\* with internal_strong_refs > 0 has a live reference
C31_InternalStrongCounted ==
  \A n \in NodeIds :
    nodes[n].st = "alive" =>
      /\ nodes[n].internal_strong_refs = Cardinality(StrongRefs(n))
      /\ nodes[n].internal_strong_refs > 0 =>
           \E r \in RefIds : refs[r].st = "live" /\ refs[r].node = n /\ refs[r].strong > 0

\* a node has two references, one with a strong count and one with a weak
\* count only, and internal_strong_refs 1; its owner is gone
C31_Witness ==
  \E n \in NodeIds : \E r1 \in nodes[n].refs, r2 \in nodes[n].refs :
    /\ nodes[n].st = "alive" /\ nodes[n].proc = 0
    /\ refs[r1].strong > 0 /\ refs[r2].strong = 0 /\ refs[r2].weak > 0
    /\ refs[r1].st = "live" /\ refs[r2].st = "live"
    /\ nodes[n].internal_strong_refs = 1

\* ---------------------------------------------------------------------
\* where a death registration is
\* ---------------------------------------------------------------------
\* the lists a binder_ref_death can be on
DeathLists ==
  {ThreadTodo(th) : th \in Threads} \cup {ProcTodo(p) : p \in Procs}
  \cup {DeliveredDeath(p) : p \in Procs} \cup {AsyncTodo(n) : n \in NodeIds}
\* how often work w is linked on list s
Links(s, w) == Cardinality({i \in 1..Len(s) : s[i] = w})
\* the lists registration d is on
ListsOf(d) == {l \in DeathLists : InSeq(WDeath(d), ListOf(Cur, l))}
\* the references registration d is attached to
AttachedTo(d) == {r \in RefIds : refs[r].st = "live" /\ refs[r].death = d}

\* C32: a death registration is in one of three places: idle (attached to
\* its reference, on no list), queued once on one todo list of its holder,
\* or on its holder's delivered-death list, and never on two lists.  A
\* registration attached to a reference whose node still has its owner is
\* idle, so binder_node_release finds it on no list: neither its BUG() nor
\* the BUG_ON of binder_enqueue_work_ilocked is reached.
C32_DeathInOnePlace ==
  /\ bug \notin {"node_release: death work already queued",
                 "enqueue_work: work already queued"}
  /\ \A d \in DeathIds :
       deaths[d].st = "live" =>
         /\ Cardinality(ListsOf(d)) <= 1
         /\ \A l \in ListsOf(d) :
              /\ Links(ListOf(Cur, l), WDeath(d)) = 1
              /\ l.l \in {"thread", "proc", "delivered"}
              /\ \A r \in AttachedTo(d) :
                   (IF l.l = "thread" THEN TProc(l.id) ELSE l.id) = refs[r].proc
         /\ ListsOf(d) = {} => AttachedTo(d) # {}
         /\ Cardinality(AttachedTo(d)) <= 1
         /\ \A r \in AttachedTo(d) :
              nodes[refs[r].node].proc # 0 => ListsOf(d) = {}

\* the owner of the node was released while a registration was attached
\* and idle: the registration was queued, read and is on the holder's
\* delivered-death list; a second one, requested after the first was
\* cleared, is queued on a todo list
C32_Witness ==
  \E d1 \in DeathIds, d2 \in DeathIds :
    /\ d1 # d2 /\ deaths[d1].st = "live" /\ deaths[d2].st = "live"
    /\ ~deaths[d1].requested_dead
    /\ ListsOf(d1) = {DeliveredDeath(2)}
    /\ AttachedTo(d1) = {}
    /\ AttachedTo(d2) # {}
    /\ \E l \in ListsOf(d2) : l.l \in {"thread", "proc"}

\* ---------------------------------------------------------------------
\* the order of the spinlocks
\* ---------------------------------------------------------------------
\* The three spinlocks: proc->outer_lock (level 1), node->lock (level 2)
\* and proc->inner_lock (level 3).  A lock or unlock call, as a function
\* makes it: of a node's lock, of a process's inner lock, or of the inner
\* lock of node->proc, which is read when the call is made and skipped
\* when it is NULL.  binder_proc_lock() is called nowhere in the file.
NodeLockOf(n) == [lvl |-> 2, id |-> n]
InnerLockOf(p) == [lvl |-> 3, id |-> p]
Call(op, arg) == [op |-> op, arg |-> arg]
binder_node_lock(node) == <<Call("node_lock", node)>>
binder_node_unlock(node) == <<Call("node_unlock", node)>>
binder_inner_proc_lock(proc) == <<Call("inner_lock", proc)>>
binder_inner_proc_unlock(proc) == <<Call("inner_unlock", proc)>>
\* the inner lock taken before the node's
binder_node_inner_lock_inner_first(node) ==
  <<Call("node_proc_lock", node), Call("node_lock", node)>>
binder_node_inner_lock(node) ==
  <<Call("node_lock", node), Call("node_proc_lock", node)>>
binder_node_inner_unlock(node) ==
  <<Call("node_proc_unlock", node), Call("node_unlock", node)>>

\* The lock and unlock calls of the functions that take a spinlock, in the
\* order in which they make them.
\* binder_worklist_empty, binder_enqueue_work, binder_dequeue_work,
\* binder_dequeue_work_head, BC_DEAD_BINDER_DONE, the work loop of
\* binder_thread_read, print_binder_proc
UnderInner(proc) == binder_inner_proc_lock(proc) \o binder_inner_proc_unlock(proc)
\* binder_get_ref_for_node, the admission of binder_transaction,
\* binder_ioctl_set_ctx_mgr, the free of a node in binder_thread_read,
\* print_binder_ref
UnderNode(node) == binder_node_lock(node) \o binder_node_unlock(node)
\* binder_inc_node, binder_dec_node, binder_dec_node_tmpref,
\* binder_cleanup_ref, BC_INCREFS_DONE and BC_ACQUIRE_DONE, BC_FREE_BUFFER
UnderNodeInner(node) == binder_node_inner_lock(node) \o binder_node_inner_unlock(node)
\* binder_inc_node_tmpref, binder_translate_handle to the owner of the
\* node, print_binder_node_nlocked under the lock of its caller
binder_inc_node_tmpref_calls(node) ==
  binder_node_lock(node) \o <<Call("node_proc_lock", node), Call("node_proc_unlock", node)>>
  \o binder_node_unlock(node)
\* the dispatch of a one-way transaction (target_proc was the owner of the
\* node at admission), BC_REQUEST_DEATH_NOTIFICATION on a dead node and
\* BC_CLEAR_DEATH_NOTIFICATION (proc is the holder of the reference)
NodeThenProc(node, proc) ==
  binder_node_lock(node) \o UnderInner(proc) \o binder_node_unlock(node)
\* binder_node_release: under the node's lock, the inner lock of the owner,
\* node->proc = NULL, then the inner lock of each holder of a reference
\* with a death registration
RECURSIVE NotifyCalls(_)
NotifyCalls(holders) ==
  IF holders = {} THEN <<>>
  ELSE UnderInner(Min(holders)) \o NotifyCalls(holders \ {Min(holders)})
binder_node_release_calls(node, proc, holders) ==
  binder_node_lock(node) \o binder_inner_proc_lock(proc)
  \o <<Call("node_proc_null", node)>> \o binder_inner_proc_unlock(proc)
  \o NotifyCalls(holders) \o binder_node_unlock(node)

\* Two processes, a node of each, and three kernel threads that run these
\* functions in any interleaving (more than binder_main_lock allows, which
\* is held around every ioctl and the deferred work).
LockProcs == {1, 2}
LockNodes == {1, 2}
LockThreads == {Thr(1, 1), Thr(1, 2), Thr(2, 1)}
LockPaths ==
  {UnderInner(p) : p \in LockProcs}
  \cup {UnderNode(n) : n \in LockNodes}
  \cup {UnderNodeInner(n) : n \in LockNodes}
  \cup {binder_inc_node_tmpref_calls(n) : n \in LockNodes}
  \cup {NodeThenProc(n, p) : n \in LockNodes, p \in LockProcs}
\* the lock a call is about (id 0: node->proc is NULL, the call is skipped)
LockOf(c) ==
  IF c.op \in {"node_lock", "node_unlock"} THEN NodeLockOf(c.arg)
  ELSE IF c.op \in {"inner_lock", "inner_unlock"} THEN InnerLockOf(c.arg)
  ELSE InnerLockOf(locks.proc[c.arg])
Acquires(c) == c.op \in {"node_lock", "inner_lock", "node_proc_lock"} /\ LockOf(c).id # 0
Releases(c) == c.op \in {"node_unlock", "inner_unlock", "node_proc_unlock"} /\ LockOf(c).id # 0
HeldBySomeone(lock) == \E th \in Threads : InSeq(lock, locks.held[th])
\* the thread spins: its next call is for a lock that is held
Spins(th) ==
  /\ locks.calls[th] # <<>>
  /\ Acquires(Head(locks.calls[th]))
  /\ HeldBySomeone(LockOf(Head(locks.calls[th])))

\* a thread enters a function that takes spinlocks
LockCall(th, path) ==
  /\ locks.calls[th] = <<>>
  /\ locks' = [locks EXCEPT !.calls[th] = path]
  /\ UNCHANGED <<procs, threads, nodes, refs, deaths, txns, bufs, tcs, ctx, ctx_uid,
                 dead_nodes, nice, rd, out, sent, bug>>

\* binder_deferred_release enters binder_node_release for a node that has
\* its owner
LockRelease(th, node) ==
  /\ locks.calls[th] = <<>>
  /\ locks.proc[node] # 0
  /\ \E holders \in SUBSET LockProcs :
       locks' = [locks EXCEPT
                   !.calls[th] = binder_node_release_calls(node, locks.proc[node], holders)]
  /\ UNCHANGED <<procs, threads, nodes, refs, deaths, txns, bufs, tcs, ctx, ctx_uid,
                 dead_nodes, nice, rd, out, sent, bug>>

\* the thread makes its next call: spin_lock returns when the lock is free
LockStep(th) ==
  /\ locks.calls[th] # <<>>
  /\ ~Spins(th)
  /\ LET c == Head(locks.calls[th])
         rest == [locks EXCEPT !.calls[th] = Tail(@)]
     IN locks' = IF Acquires(c)
                 THEN [rest EXCEPT !.held[th] = Append(@, LockOf(c))]
                 ELSE IF Releases(c)
                 THEN [rest EXCEPT !.held[th] = Remove(@, LockOf(c))]
                 ELSE IF c.op = "node_proc_null"
                 THEN [rest EXCEPT !.proc[c.arg] = 0]
                 ELSE rest
  /\ UNCHANGED <<procs, threads, nodes, refs, deaths, txns, bufs, tcs, ctx, ctx_uid,
                 dead_nodes, nice, rd, out, sent, bug>>

NextLocks ==
  \/ \E th \in LockThreads : \E path \in LockPaths : LockCall(th, path)
  \/ \E th \in LockThreads : \E n \in LockNodes : LockRelease(th, n)
  \/ \E th \in LockThreads : LockStep(th)

SpecLocks == Init /\ [][NextLocks]_vars

\* C33: the locks a thread holds were taken in the order outer, node,
\* inner: each is of a higher level than every lock taken before it, of its
\* own or of another process, so a node lock is never taken under an inner
\* lock, an outer lock never under a node or inner lock, and no lock under
\* a lock of another process of the same level or below.  No set of
\* threads deadlocks: while any thread is inside such a function, one of
\* them is not spinning.
C33_LockOrder ==
  /\ \A th \in Threads :
       \A i \in 1..Len(locks.held[th]) : \A j \in 1..Len(locks.held[th]) :
         i < j => locks.held[th][i].lvl < locks.held[th][j].lvl
  /\ (\E th \in Threads : locks.calls[th] # <<>>)
       => \E th \in Threads : locks.calls[th] # <<>> /\ ~Spins(th)

\* a thread holds the lock of the node of process 1 and, under it, the
\* inner lock of process 2; another holds the lock of the node of process 2
\* and spins on the inner lock of process 2; a third spins on the lock of
\* the first node
C33_Witness ==
  \E a \in LockThreads, b \in LockThreads, c \in LockThreads :
    /\ locks.held[a] = <<NodeLockOf(1), InnerLockOf(2)>>
    /\ locks.held[b] = <<NodeLockOf(2)>>
    /\ Spins(b) /\ LockOf(Head(locks.calls[b])) = InnerLockOf(2)
    /\ Spins(c) /\ LockOf(Head(locks.calls[c])) = NodeLockOf(1)

\* ---------------------------------------------------------------------
\* one spawn request at a time
\* ---------------------------------------------------------------------
\* this step sets REGISTERED in the looper state of th: BC_REGISTER_LOOPER
RegistersNow(th) ==
  "REGISTERED" \in threads'[th].looper /\ "REGISTERED" \notin threads[th].looper
\* requested_threads and requested_threads_started of process p
SpawnCounters(P) == <<P.requested_threads, P.requested_threads_started>>

\* C34: requested_threads of a process is 0 or 1.  BR_SPAWN_LOOPER is
\* emitted only when it is 0, which makes it 1; it goes down only by one,
\* from a positive value, in a BC_REGISTER_LOOPER, which counts the thread
\* as started; a BC_REGISTER_LOOPER that finds it 0 marks the thread
\* INVALID and leaves both counters as they were.
C34_OneSpawnRequest ==
  /\ [](\A p \in Procs : procs[p].requested_threads \in {0, 1})
  /\ [][\A th \in LooperThreads :
          /\ Spawns(out'[th]) > Spawns(out[th])
               => /\ Spawns(out'[th]) = Spawns(out[th]) + 1
                  /\ procs[TProc(th)].requested_threads = 0
                  /\ procs'[TProc(th)].requested_threads = 1
          /\ procs'[TProc(th)].requested_threads < procs[TProc(th)].requested_threads
               => /\ procs[TProc(th)].requested_threads > 0
                  /\ procs'[TProc(th)].requested_threads
                       = procs[TProc(th)].requested_threads - 1
                  /\ procs'[TProc(th)].requested_threads_started
                       = procs[TProc(th)].requested_threads_started + 1
                  /\ \E th2 \in LooperThreads :
                       /\ TProc(th2) = TProc(th) /\ RegistersNow(th2)
                       /\ "INVALID" \notin threads'[th2].looper
          /\ RegistersNow(th) /\ procs[TProc(th)].requested_threads = 0
               => /\ "INVALID" \in threads'[th].looper
                  /\ SpawnCounters(procs'[TProc(th)]) = SpawnCounters(procs[TProc(th)])]_vars

\* process 1 was asked for a thread, a thread registered for the request
\* and was counted, and the process has been asked for a second one: two
\* BR_SPAWN_LOOPER were read in all, one request is outstanding
C34_Witness ==
  /\ procs[1].requested_threads = 1
  /\ procs[1].requested_threads_started = 1
  /\ Spawns(out[Thr(1, 1)]) + Spawns(out[Thr(1, 2)]) = 2
  /\ \E th \in LooperThreads :
       TProc(th) = 1 /\ "REGISTERED" \in threads[th].looper
       /\ "INVALID" \notin threads[th].looper

\* ---------------------------------------------------------------------
\* whose transactions a stack holds
\* ---------------------------------------------------------------------
\* The nested calls of above between one thread of each process, with
\* one-way calls of process 1, threads that exit and files that close:
\* a transaction stack is unwound by replies, by failed replies and by the
\* release of a thread.
ExitThreads == {Thr(1, 1), Thr(2, 1)}
ExitProcs == {1, 2}
ExitCalls == {Tr(h, 7, o, <<>>, "none") : h \in {0, 1}, o \in BOOLEAN}

NextExit ==
  \/ \E th \in ExitThreads : TProc(th) = 1 /\ BINDER_SET_CONTEXT_MGR(th, TRUE)
  \/ \E th \in ExitThreads : TProc(th) = 2 /\ \E tr \in NestedFirst : Write_BC_TRANSACTION(th, tr)
  \/ \E th \in ExitThreads : TProc(th) = 1 /\ \E tr \in ExitCalls : Write_BC_TRANSACTION(th, tr)
  \/ \E th \in ExitThreads : Write_BC_REPLY(th, Tr(0, 0, FALSE, <<>>, "none"))
  \/ \E th \in ExitThreads : ReadBegin(th)
  \/ \E th \in ExitThreads : ReadWake(th, MaxRoom)
  \/ \E th \in ExitThreads : BINDER_THREAD_EXIT(th)
  \/ \E p \in ExitProcs : binder_release(p)

SpecExit == Init /\ [][NextExit]_vars

\* A thread of the context manager serves a call of its own process and
\* calls the manager from the handler; once that caller is gone the call
\* is steered down the stack to the first sender of the target process,
\* which is the calling thread itself.  These runs issue MaxSelfTxn
\* transactions: the announce of process 2, the three calls of process 1
\* to its own manager and one call on to process 2.
Write_BC_TRANSACTION_self(th, tr) ==
  /\ Ioctl(th)
  /\ FreeId(txns, TxnIds) # 0
  /\ LET S == binder_get_thread(Cur, th)
     IN Write(th, S, binder_transaction(S, th, tr, FALSE))

SelfThreads == {Thr(1, 1), Thr(1, 2), Thr(2, 1)}
SelfLeavers == {Thr(1, 2), Thr(2, 1)}
SelfAnnounce == Tr(0, 7, TRUE, <<Obj("BINDER", 1, 1)>>, "none")

NextSelf ==
  \/ BINDER_SET_CONTEXT_MGR(Thr(1, 1), TRUE)
  \/ procs[2].nodes = {} /\ Write_BC_TRANSACTION_self(Thr(2, 1), SelfAnnounce)
  \/ procs[2].nodes # {} /\ \E h \in {0, 1} : Write_BC_TRANSACTION_self(Thr(1, 1), Tr(h, 7, FALSE, <<>>, "none"))
  \/ threads[Thr(1, 2)].transaction_stack # 0 /\ Write_BC_TRANSACTION_self(Thr(1, 2), Tr(0, 7, FALSE, <<>>, "none"))
  \/ \E th \in SelfThreads : ReadBegin(th)
  \/ \E th \in SelfThreads : ReadWake(th, MaxRoom)
  \/ \E th \in SelfLeavers : BINDER_THREAD_EXIT(th)

SpecSelf == Init /\ [][NextSelf]_vars

\* the transactions binder_thread_release visits from t on: one that came
\* in to th links to its to_parent, one that th sent to its from_parent
RECURSIVE Unwound(_, _, _)
Unwound(th, t, n) ==
  IF t = 0 \/ n = 0 THEN {}
  ELSE {t} \cup (IF txns[t].to_thread = th THEN Unwound(th, txns[t].to_parent, n - 1)
                 ELSE IF txns[t].from = th THEN Unwound(th, txns[t].from_parent, n - 1)
                 ELSE {})
\* the BUG() of binder_thread_release and the BUG_ONs of binder_pop_transaction
StackBugs ==
  {"pop_transaction: no target thread",
   "pop_transaction: not the top of the stack",
   "pop_transaction: top is not from this thread",
   "thread_release: transaction of another thread on the stack"}
\* this step took t off the stack of its sender
Popped(t) == txns[t].from # 0 /\ txns'[t].from = 0 /\ threads'[txns[t].from].exists

\* C35: every transaction on the stack of a thread was sent by the thread
\* or came in to it; a transaction that is taken off the stack of its
\* sender while the sender lives was the top of that stack, or became the
\* top in the same command when the sender's reply to the call above it
\* found the caller gone; neither the
\* BUG() of binder_thread_release nor a BUG_ON of binder_pop_transaction
\* is ever hit.
C35_StackOwned ==
  /\ [](/\ bug \notin StackBugs
        /\ \A th \in Threads :
             threads[th].exists
               => \A t \in Unwound(th, threads[th].transaction_stack, MaxSelfTxn + 1) :
                    txns[t].from = th \/ txns[t].to_thread = th)
  /\ [][\A t \in TxnIds :
          Popped(t) => LET top == threads[txns[t].from].transaction_stack
                       IN \/ top = t
                          \/ /\ top # 0
                             /\ txns[top].to_thread = txns[t].from
                             /\ txns[top].to_parent = t
                             /\ txns'[top].st = "freed"]_vars

\* a thread holds a call that came in under a call it sent, and a
\* transaction below the top of a stack has been unwound by a failed reply
C35_Witness ==
  /\ \E th \in Threads :
       /\ threads[th].exists
       /\ Cardinality(Unwound(th, threads[th].transaction_stack, MaxSelfTxn + 1)) >= 2
  /\ \E th \in Threads : \E i \in 1..Len(out[th]) : out[th][i].cmd = "BR_DEAD_REPLY"

\* ---------------------------------------------------------------------
\* what the work lists hold
\* ---------------------------------------------------------------------
\* the object that embeds work w has been allocated and not freed
LiveWork(w) ==
  CASE w.kind = "transaction" -> txns[w.id].st = "live"
    [] w.kind = "tcomplete" -> tcs[w.id] = "live"
    [] w.kind = "node" -> nodes[w.id].st = "alive"
    [] w.kind = "death" -> deaths[w.id].st = "live"
    [] OTHER -> threads[w.id].exists
\* the work lists of the objects that exist
WorkLists ==
  {ThreadTodo(th) : th \in {x \in Threads : threads[x].exists}}
  \cup {ProcTodo(p) : p \in Procs} \cup {DeliveredDeath(p) : p \in Procs}
  \cup {AsyncTodo(n) : n \in {x \in NodeIds : nodes[x].st = "alive"}}
QueuedFreed ==
  {"read: tcomplete was freed", "read: target node was freed",
   "double free of transaction", "double free of node"}

C37_IndexedRefCounted ==
  \A p \in Procs :
    \A r \in procs[p].refs_by_desc : refs[r].strong + refs[r].weak >= 1

\* ---------------------------------------------------------------------
\* the return error of a thread
\* ---------------------------------------------------------------------
\* the thread's return_error holds an error that no read has emitted
ErrorPending(th) == threads[th].return_error # "BR_OK"
\* the commands this step added to what th has read
ReadNow(th) == {out'[th][i].cmd : i \in (Len(out[th]) + 1)..Len(out'[th])}

\* C39: the work of a thread's return_error is on the thread's todo list,
\* once, exactly while an error is pending, and on no other list.  While
\* it is pending no command of the thread is executed (no transaction is
\* attempted by it), the error is not replaced, and it is cleared only by
\* the read of the thread that emits it.  The BUG_ON at the failure exit
\* of binder_transaction is never hit.
C39_OneReturnError ==
  /\ [](/\ bug \notin {"binder_transaction: return_error in use",
                       "enqueue_work: work already queued"}
        /\ \A th \in Threads :
             /\ Links(threads[th].todo, WRetErr(th)) = (IF ErrorPending(th) THEN 1 ELSE 0)
             /\ \A l \in DeathLists \ {ThreadTodo(th)} : ~InSeq(WRetErr(th), ListOf(Cur, l)))
  /\ [][\A th \in Threads :
          ErrorPending(th) =>
            /\ Len(sent') > Len(sent) => sent'[Len(sent')].from # th
            /\ threads'[th].return_error \in {threads[th].return_error, "BR_OK"}
            /\ (threads'[th].exists /\ ~ErrorPending(th)')
                 => threads[th].return_error \in ReadNow(th)]_vars

\* a thread has read the error of a send that failed, and the error of a
\* later send of the thread is pending
C39_Witness ==
  \E th \in Threads :
    /\ ErrorPending(th)
    /\ \E i \in 1..Len(out[th]) : out[th][i].cmd \in {"BR_FAILED_REPLY", "BR_DEAD_REPLY"}
    /\ \E i \in 1..Len(sent), j \in 1..Len(sent) :
         /\ i < j /\ sent[i].from = th /\ sent[j].from = th
         /\ sent[i].error # "BR_OK" /\ sent[j].error # "BR_OK"

\* ---------------------------------------------------------------------
\* a second call while the first awaits its reply
\* ---------------------------------------------------------------------
\* the top of th's stack is a call th sent
AwaitsReply(th) ==
  /\ threads[th].exists
  /\ threads[th].transaction_stack # 0
  /\ txns[threads[th].transaction_stack].from = th
\* this step is a BC_TRANSACTION of th
SendsNow(th) ==
  /\ Len(sent') = Len(sent) + 1
  /\ sent'[Len(sent')].from = th
  /\ ~sent'[Len(sent')].reply
\* the transactions that are on a work list
QueuedTxns(S) == {t \in TxnIds : OnAList(S, WTxn(t))}
\* nothing is queued, the stack of th is as it was and the counts taken for
\* the target are given back
Rejected(th, s) ==
  /\ QueuedTxns(Cur)' = QueuedTxns(Cur)
  /\ threads'[th].transaction_stack = threads[th].transaction_stack
  /\ s.node # 0 =>
       /\ nodes'[s.node].local_strong_refs = nodes[s.node].local_strong_refs
       /\ nodes'[s.node].tmp_refs = nodes[s.node].tmp_refs
  /\ \A p \in Procs : procs'[p].tmp_ref = procs[p].tmp_ref

\* C40 as stated: a synchronous BC_TRANSACTION of a thread whose stack top
\* is a call it sent fails with BR_FAILED_REPLY, queues nothing, leaves the
\* stack as it was and gives back the counts on the target node and
\* process.
C40_SecondCallRejected ==
  [][\A th \in Threads :
       (AwaitsReply(th) /\ SendsNow(th) /\ ~sent'[Len(sent')].one_way)
         => /\ sent'[Len(sent')].error = "BR_FAILED_REPLY"
            /\ Rejected(th, sent'[Len(sent')])]_vars

\* The call on top of the stack is addressed to another thread or to a
\* process.  A synchronous BC_TRANSACTION then queues
\* nothing, leaves the stack as it was and gives back the counts on the
\* target node and process; it fails with BR_FAILED_REPLY when its target
\* process was found or its handle names no reference, and with
\* BR_DEAD_REPLY when the target node has lost its process or there is no
\* context manager.  A one-way BC_TRANSACTION whose target process was
\* found is queued, and the stack stays as it was.
C40_SecondCallToOther ==
  [][\A th \in Threads :
       (/\ AwaitsReply(th)
        /\ txns[threads[th].transaction_stack].to_thread # th
        /\ SendsNow(th))
         => LET s == sent'[Len(sent')]
            IN IF s.one_way
               THEN s.to_proc # 0
                      => /\ s.error = "BR_OK"
                         /\ s.t \in QueuedTxns(Cur)'
                         /\ threads'[th].transaction_stack = threads[th].transaction_stack
               ELSE /\ s.error = (IF s.to_proc # 0 \/ (s.node = 0 /\ s.handle # 0)
                                  THEN "BR_FAILED_REPLY" ELSE "BR_DEAD_REPLY")
                    /\ Rejected(th, s)]_vars

\* a thread sent a call, then a second call that was refused with
\* BR_FAILED_REPLY after its target process was found, then a one-way
\* transaction that was queued; the first call is still on top of its stack
C40_Witness ==
  \E th \in Threads :
    /\ AwaitsReply(th)
    /\ \E i, j, k \in 1..Len(sent) :
         /\ i < j /\ j < k
         /\ sent[i].from = th /\ sent[j].from = th /\ sent[k].from = th
         /\ sent[i].t = threads[th].transaction_stack
         /\ ~sent[j].one_way /\ ~sent[j].reply
         /\ sent[j].error = "BR_FAILED_REPLY" /\ sent[j].to_proc # 0
         /\ sent[k].one_way /\ sent[k].error = "BR_OK"

\* ---------------------------------------------------------------------
\* the delivery of parked one-way transactions
\* ---------------------------------------------------------------------
\* Process 1 becomes the context manager and stays open.  Process 2 sends
\* one-way transactions to handle 0.  The threads of process 1 read and
\* free the buffers that were delivered to the process; the first of them
\* may exit, the second stays.
ParkedReceivers == {Thr(1, 1), Thr(1, 2)}
ParkedLeavers == {Thr(1, 1)}
ParkedSenders == {Thr(2, 1)}

NextParked ==
  \/ \E th \in ParkedReceivers : BINDER_SET_CONTEXT_MGR(th, TRUE)
  \/ \E th \in ParkedSenders : \E tr \in AsyncTrs : Write_BC_TRANSACTION(th, tr)
  \/ \E th \in ParkedReceivers : \E b \in TxnIds : Write_BC_FREE_BUFFER(th, b)
  \/ \E th \in ParkedReceivers : ReadBegin(th)
  \/ \E th \in ParkedReceivers : ReadWake(th, MaxRoom)
  \/ \E th \in ParkedLeavers : BINDER_THREAD_EXIT(th)

SpecParked == Init /\ [][NextParked]_vars

\* buffer b was delivered to process 1 and has not been freed
AwaitsFree(b) ==
  bug = "" /\ bufs[b].st = "alloc" /\ bufs[b].proc = 1 /\ bufs[b].allow_user_free
\* this step is a BC_FREE_BUFFER that frees b
FreesNow(b) == bufs[b].st = "alloc" /\ bufs'[b].st = "freed"

\* the threads of process 1 keep reading, and every buffer delivered to
\* process 1 is freed
SpecParkedFair ==
  /\ SpecParked
  /\ \A th \in ParkedReceivers :
       /\ WF_vars(ReadBegin(th))
       /\ []<>(~ReadReady(th)) \/ []<><<ReadWake(th, MaxRoom)>>_vars
  /\ \A b \in TxnIds : []<>(~AwaitsFree(b)) \/ []<><<FreesNow(b)>>_vars

\* transaction t is on the async_todo list of a node
Parked(t) == \E n \in NodeIds : InSeq(WTxn(t), nodes[n].async_todo)
\* a thread has read BR_TRANSACTION for t
ReadAsTransaction(t) ==
  \E th \in Threads : \E i \in 1..Len(out[th]) :
    out[th][i].cmd = "BR_TRANSACTION" /\ out[th][i].id = t

\* C38: a one-way transaction parked on async_todo is eventually read as
\* BR_TRANSACTION, when the receiving process stays open, its threads keep
\* reading and every buffer delivered to it is freed.
C38_ParkedDelivered ==
  \A t \in TxnIds : Parked(t) ~> ReadAsTransaction(t)

====
